---- MODULE Spec2Model ----
(***************************************************************************)
(* Model of the submission evaluator: the six validators                   *)
(* (evaluation/validators/*.py), the module orchestrator                   *)
(* (evaluation/evaluate.py) and the scoring aggregator                     *)
(* (evaluation/scoring.py).                                                *)
(*                                                                         *)
(* Text model.  A file's content is a sequence of lines and a line is a    *)
(* sequence of tokens (its whitespace-separated words).  The lines are the *)
(* pieces between line breaks, as content.split("\n") gives them: "" is a  *)
(* single empty line, and a content that ends with a line break has an     *)
(* empty last line.  Substring tests of the code ("kw in text", re.search *)
(* of a literal, str.startswith) are decided token by token through the   *)
(* tables PrefixTable, SuffixTable and SubstringTable, which list, for a   *)
(* token of the vocabulary,                                                *)
(* the searched words it contains.  str.lower() is the table LowerTable.   *)
(* Parsers the code calls as libraries (yaml, hcl2, ast) are inputs: a     *)
(* file carries, next to its lines, the value the parser returns for it.   *)
(***************************************************************************)
EXTENDS Integers, Sequences, FiniteSets, TLC

VARIABLES
    sub,            \* the submission directory (files, directories, parser outcomes)
    env,            \* the evaluator's environment (linter, hcl2 library, keyword file)
    pc,             \* position of the evaluate() call
    module,         \* evaluate's module argument (NoModule = None)
    quick,          \* evaluate's quick argument
    modules_to_run, \* evaluate: the modules the loop has still to visit
    module_results, \* evaluate: module name -> list of checks
    invoked,        \* the validators invoked so far by this evaluate() call
    result,         \* the EvaluationResult evaluate returned last
    reference       \* the last result returned by an all-modules run, with its mode

vars == <<sub, env, pc, module, quick, modules_to_run, module_results, invoked,
          result, reference>>

(***************************************************************************)
(* Bounds of the sample inputs.                                            *)
(***************************************************************************)
\* number of lines of a fully written sample script
ScriptLines == 12
\* number of prose lines of a fully written sample document
ProseLines == 6

(***************************************************************************)
(* Generic helpers.                                                        *)
(***************************************************************************)
RECURSIVE SumSeq(_)
SumSeq(s) == IF s = <<>> THEN 0 ELSE Head(s) + SumSeq(Tail(s))

RECURSIVE Flatten(_)
Flatten(ss) == IF ss = <<>> THEN <<>> ELSE Head(ss) \o Flatten(Tail(ss))

Min(a, b) == IF a <= b THEN a ELSE b

Max(a, b) == IF a >= b THEN a ELSE b

Bool2Int(b) == IF b THEN 1 ELSE 0

Range(s) == {s[i] : i \in 1..Len(s)}

RECURSIVE Repeat(_, _)
Repeat(x, n) == IF n <= 0 THEN <<>> ELSE <<x>> \o Repeat(x, n - 1)

RECURSIVE Join(_, _)
Join(strs, sep) ==
    IF strs = <<>> THEN ""
    ELSE IF Len(strs) = 1 THEN Head(strs)
    ELSE Head(strs) \o sep \o Join(Tail(strs), sep)

YesNo(b) == IF b THEN "yes" ELSE "no"

\* dict.get(key, default)
Get(table, key, default) == IF key \in DOMAIN table THEN table[key] ELSE default

(***************************************************************************)
(* Text: tokens, substrings, prefixes, case.                               *)
(***************************************************************************)
\* str.lower() of a token: the tokens of the vocabulary that are not already
\* lower case.
LowerTable ==
    ("TODO" :> "todo") @@ ("-P" :> "-p") @@ ("-A" :> "-a") @@ ("INPUT" :> "input") @@
    ("FORWARD" :> "forward") @@ ("OUTPUT" :> "output") @@ ("DROP" :> "drop") @@
    ("ACCEPT" :> "accept") @@ ("LOG" :> "log") @@ ("MTU" :> "mtu") @@
    ("VPN" :> "vpn") @@ ("Action" :> "action") @@ ("Items" :> "items") @@
    ("Build" :> "build") @@ ("Deploy" :> "deploy") @@ ("Rollback" :> "rollback") @@
    ("Spot" :> "spot") @@ ("Public" :> "public") @@ ("Private" :> "private") @@
    ("OOMKilled" :> "oomkilled") @@ ("Root" :> "root") @@ ("Cause" :> "cause") @@
    ("Remediation" :> "remediation") @@ ("Design" :> "design") @@
    ("Timeline" :> "timeline") @@ ("Summary" :> "summary")

lower(tok) == Get(LowerTable, tok, tok)

RECURSIVE lower_line(_)
lower_line(line) ==
    IF line = <<>> THEN <<>> ELSE <<lower(Head(line))>> \o lower_line(Tail(line))

RECURSIVE lower_text(_)
lower_text(text) ==
    IF text = <<>> THEN <<>> ELSE <<lower_line(Head(text))>> \o lower_text(Tail(text))

\* The proper prefixes of a token that the code tests with startswith.
PrefixTable ==
    ("#!/bin/bash" :> {"#", "#!/"}) @@ ("#!/" :> {"#"}) @@ ("##" :> {"#"}) @@
    ("#todo" :> {"#"}) @@ ("2222" :> {"22"}) @@ ("dropped" :> {"drop"}) @@
    ("-euo" :> {"-e"}) @@ ("items" :> {"item"}) @@ ("stages:" :> {"stage"}) @@
    ("10.50.1.0/24" :> {"10.50.1."}) @@ ("10.50.20.0/24" :> {"10.50.20"}) @@
    ("timeout=5" :> {"timeout"}) @@ ("health_check" :> {"health"}) @@
    ("rollback_release" :> {"rollback"})

PrefixesOf(tok) == {tok} \cup Get(PrefixTable, tok, {})

\* The searched words a token contains elsewhere than at its start.
SubstringTable ==
    ("#todo" :> {"todo"}) @@ ("latest" :> {"test"}) @@
    ("rebuild" :> {"build"}) @@ ("do_rollback" :> {"rollback"}) @@
    ("health_check" :> {"health"}) @@ ("check_health" :> {"health", "check"}) @@
    ("rollback_release" :> {"rollback"}) @@
    ("set_mtu" :> {"mtu"}) @@ ("[0.0.0.0/0]" :> {"0.0.0.0/0"}) @@
    ("8443" :> {"443"}) @@ ("ntpd" :> {"ntp"}) @@ ("one-pass" :> {"pass"}) @@
    ("app.service" :> {".service"}) @@ ("root.findall(" :> {"findall("}) @@
    ("ET.fromstring(" :> {".fromstring("}) @@ ("logrotate" :> {"rotate"}) @@
    ("parser.add_argument(" :> {"add_argument"}) @@
    ("$120" :> {"$"}) @@ ("30%" :> {"%"})

SuffixTable ==
    ("iptables-policy" :> {"policy"}) @@ ("8443" :> {"443"}) @@
    ("rebuild" :> {"build"}) @@ ("do_rollback" :> {"rollback"}) @@
    ("app.service" :> {".service"}) @@ ("one-pass" :> {"pass"}) @@
    ("logrotate" :> {"rotate"}) @@ ("root.findall(" :> {"findall("}) @@
    ("ET.fromstring(" :> {".fromstring("}) @@ ("latest" :> {"test"})

SuffixesOf(tok) == {tok} \cup Get(SuffixTable, tok, {})

\* every searched word that occurs in the token
Parts(tok) ==
    {tok} \cup Get(PrefixTable, tok, {}) \cup Get(SuffixTable, tok, {})
        \cup Get(SubstringTable, tok, {})

\* A searched string of several words, as its words.
PhraseTable ==
    ("docker push" :> <<"docker", "push">>) @@ ("docker build" :> <<"docker", "build">>) @@
    ("container registry" :> <<"container", "registry">>) @@
    ("roll back" :> <<"roll", "back">>) @@ ("install docker" :> <<"install", "docker">>) @@
    ("log rotation" :> <<"log", "rotation">>) @@ ("ip link" :> <<"ip", "link">>) @@
    ("ip link show" :> <<"ip", "link", "show">>) @@ ("set -e" :> <<"set", "-e">>) @@
    ("set -euo pipefail" :> <<"set", "-euo", "pipefail">>) @@
    ("mixed instance" :> <<"mixed", "instance">>) @@
    ("smaller instance" :> <<"smaller", "instance">>) @@
    ("monthly cost" :> <<"monthly", "cost">>) @@ ("total cost" :> <<"total", "cost">>) @@
    ("current spend" :> <<"current", "spend">>) @@
    ("your cost analysis" :> <<"your", "cost", "analysis">>) @@
    ("such as:" :> <<"such", "as:">>) @@
    ("address the findings" :> <<"address", "the", "findings">>) @@
    ("lifecycle policies" :> <<"lifecycle", "policies">>) @@
    ("cost report" :> <<"cost", "report">>) @@ ("action item" :> <<"action", "item">>)

Phrase(kw) == Get(PhraseTable, kw, <<kw>>)

\* the words p occur in adjacent tokens of the line: the first at a token's
\* end, the last at a token's start, the others whole
PhraseInLine(p, line) ==
    IF Len(p) = 1 THEN \E j \in 1..Len(line) : p[1] \in Parts(line[j])
    ELSE \E j \in 1..(Len(line) - Len(p) + 1) :
             /\ p[1] \in SuffixesOf(line[j])
             /\ p[Len(p)] \in PrefixesOf(line[j + Len(p) - 1])
             /\ \A k \in 2..(Len(p) - 1) : p[k] = line[j + k - 1]

\* `kw in line`
InLine(kw, line) == PhraseInLine(Phrase(kw), line)

\* `kw in text`, re.search(<literal>, text)
InText(kw, text) == \E i \in 1..Len(text) : InLine(kw, text[i])

AnyIn(kws, text) == \E kw \in kws : InText(kw, text)

\* str.find(kw): the index of the first token of the text holding kw, 0 when
\* there is none (tokens are numbered from 1 through the whole text).
Find(kw, text) ==
    LET toks == Flatten(text)
        hits == {i \in 1..Len(toks) : kw \in Parts(toks[i])}
    IN  IF hits = {} THEN 0 ELSE CHOOSE i \in hits : \A j \in hits : i <= j

\* line.strip().startswith(p)
StartsWith(line, p) == line # <<>> /\ p \in PrefixesOf(Head(line))

\* l.strip() and not l.strip().startswith("#")
IsCodeLine(line) == line # <<>> /\ ~StartsWith(line, "#")

\* len(line) in characters: tokens separated by one space
LineLen(line) ==
    IF line = <<>> THEN 0
    ELSE SumSeq([i \in 1..Len(line) |-> Len(line[i])]) + (Len(line) - 1)

\* len(text.strip()): from the first non-blank line to the last one, the line
\* breaks between them included
StrippedLen(text) ==
    LET nb == {i \in 1..Len(text) : text[i] # <<>>}
    IN  IF nb = {} THEN 0
        ELSE LET first == CHOOSE i \in nb : \A j \in nb : i <= j
                 last == CHOOSE i \in nb : \A j \in nb : i >= j
             IN  SumSeq([k \in 1..(last - first + 1) |-> LineLen(text[first + k - 1])])
                     + (last - first)

\* text.strip().startswith(p): the first non-blank line starts with p
TextStartsWith(text, p) ==
    \E i \in 1..Len(text) :
        /\ text[i] # <<>>
        /\ \A j \in 1..(i - 1) : text[j] = <<>>
        /\ StartsWith(text[i], p)

\* the content ""
EmptyText == << <<>> >>

\* str.splitlines(): the lines, without the empty piece after a final line break
splitlines(content) ==
    IF content[Len(content)] = <<>> THEN SubSeq(content, 1, Len(content) - 1) ELSE content

\* "\n".join(lines), as a content
join_lines(lines) == IF lines = <<>> THEN EmptyText ELSE lines

\* the non-blank lines of a content that do not start with "#"
CodeLines(content) == SelectSeq(splitlines(content), IsCodeLine)

NonBlank(line) == line # <<>>

\* [l for l in content.splitlines() if l.strip()]
NonBlankLines(content) == SelectSeq(splitlines(content), NonBlank)

(***************************************************************************)
(* The submission directory.                                               *)
(***************************************************************************)
\* A byte sequence that is not valid UTF-8: open(..., "r").read() raises
\* UnicodeDecodeError on a file that holds it.
BadByte == "\\xff"

UnicodeDecodeError == "'utf-8' codec can't decode byte 0xff in position 0: invalid start byte"

Name(path) == path[2] \o path[3]

FileAt(s, path) ==
    LET at == {i \in 1..Len(s.files) : s.files[i].path = path}
    IN  s.files[CHOOSE i \in at : \A j \in at : i <= j]

Exists(s, path) == \E i \in 1..Len(s.files) : s.files[i].path = path

isdir(s, dir) == s.root /\ dir \in s.dirs

\* os.listdir(dir), filtered by extension: the directory's files in listing order
listdir(s, dir, exts) ==
    LET In(f) == f.path[1] = dir /\ f.path[3] \in exts
    IN  SelectSeq(s.files, In)

Undecodable(lines) == \E i \in 1..Len(lines) : BadByte \in Range(lines[i])

\* open(path).read() raises UnicodeDecodeError
ReadRaises(s, path) == Exists(s, path) /\ Undecodable(FileAt(s, path).lines)

\* _read_file: the content, "" when the file is missing (FileNotFoundError and
\* IOError are caught; a decoding error is not, see ReadRaises)
_read_file(s, path) == IF Exists(s, path) THEN FileAt(s, path).lines ELSE EmptyText

(***************************************************************************)
(* Checks.                                                                 *)
(***************************************************************************)
\* all the points whatever the verdict
_check_awarded(name, max_points, passed, details) ==
    [name |-> name,
     max_points |-> max_points,
     points_awarded |-> max_points,
     passed |-> passed,
     details |-> details]

_check(name, max_points, passed, details) ==
    [name |-> name,
     max_points |-> max_points,
     points_awarded |-> IF passed THEN max_points ELSE 0,
     passed |-> passed,
     details |-> details]

\* a check built as a dict literal, its points set independently of passed
CheckDict(name, max_points, points_awarded, passed, details) ==
    [name |-> name, max_points |-> max_points, points_awarded |-> points_awarded,
     passed |-> passed, details |-> details]

\* what a validate() call does: return a list of checks, or raise
Returned(checks) == [raised |-> FALSE, exc |-> "", checks |-> checks]

Raised(exc) == [raised |-> TRUE, exc |-> exc, checks |-> <<>>]

(***************************************************************************)
(* python_validator.py                                                     *)
(*                                                                         *)
(* ast.parse is a library call: a .py file carries the tree it returns,    *)
(* [error, funcs, attributes, calls].  error is "" (a tree) or             *)
(* "SyntaxError"; funcs lists every                                        *)
(* ast.FunctionDef node ast.walk visits (nested ones and methods too, but  *)
(* not `async def`, which is ast.AsyncFunctionDef), each with its name and *)
(* the kinds of its body's statements; attributes are the (name, attr)     *)
(* pairs of Attribute nodes on a Name; calls the attribute names called.   *)
(***************************************************************************)
DeployPy == <<"cicd", "deploy", ".py">>

\* not isinstance(s, ast.Pass) and not (an Expr holding a str Constant)
IsRealStmt(kind) == kind \notin {"pass", "docstring"}

\* the names whose last FunctionDef node has a real statement in its body
ImplementedFuncs_last(tree) ==
    {tree.funcs[i].name : i \in {j \in 1..Len(tree.funcs) :
        /\ \A n \in (j + 1)..Len(tree.funcs) : tree.funcs[n].name # tree.funcs[j].name
        /\ \E k \in 1..Len(tree.funcs[j].body) : IsRealStmt(tree.funcs[j].body[k])}}

\* the names of the FunctionDef nodes whose body has a real statement
ImplementedFuncs(tree) ==
    {tree.funcs[i].name : i \in {j \in 1..Len(tree.funcs) :
        \E k \in 1..Len(tree.funcs[j].body) : IsRealStmt(tree.funcs[j].body[k])}}

_get_function_names(tree) == [i \in 1..Len(tree.funcs) |-> tree.funcs[i].name]

_has_argparse(tree) ==
    \/ \E a \in tree.attributes : a[1] = "argparse"
    \/ "ArgumentParser" \in tree.calls

_has_subparsers(content) ==
    InText("add_subparsers", content) \/ InText("subcommand", lower_text(content))

\* some implemented function has the word in its lower-cased name
HasImplemented(word, tree) == \E fn \in ImplementedFuncs(tree) : word \in Parts(lower(fn))

\* the one check of full mode, from what the tests on the file found
deploy_check(argparse_ok, subparsers, rollback_funcs, health_funcs) ==
    LET score == 1 + Bool2Int(argparse_ok) + Bool2Int(rollback_funcs) + Bool2Int(health_funcs)
        details ==
            <<"valid syntax">>
                \o (IF argparse_ok THEN <<"argparse">> ELSE <<>>)
                \o (IF argparse_ok /\ subparsers THEN <<"subcommands">> ELSE <<>>)
                \o (IF rollback_funcs THEN <<"rollback function">> ELSE <<>>)
                \o (IF health_funcs THEN <<"healthcheck function">> ELSE <<>>)
    IN  Returned(<<CheckDict("deploy.py: valid Python, argparse, rollback, healthcheck",
                             4, score, score >= 3, "Found: " \o Join(details, ", "))>>)

\* validate() once deploy.py is read: content is the text, tree what ast.parse gives
deploy_checks(q, content, tree) ==
    IF content = EmptyText
    THEN Returned(<<_check("deploy.py exists", 4, FALSE, "File not found or empty")>>)
    ELSE IF tree.error = "SyntaxError"
    THEN Returned(<<_check("deploy.py: valid Python syntax", 4, FALSE,
                           "SyntaxError: invalid syntax")>>)
    ELSE IF q
    THEN Returned(<<_check("deploy.py: valid Python syntax", 1, TRUE, "")>>)
    ELSE deploy_check(_has_argparse(tree) /\ AnyIn({"add_argument", "add_subparsers"}, content),
                      _has_subparsers(content),
                      HasImplemented("rollback", tree),
                      HasImplemented("health", tree))

python_validator_validate(s, e, q) ==
    IF ReadRaises(s, DeployPy) THEN Raised(UnicodeDecodeError)
    ELSE deploy_checks(q, _read_file(s, DeployPy), FileAt(s, DeployPy).ast)

(***************************************************************************)
(* Running a validator's steps in order: the first step that raises ends   *)
(* the call, otherwise the steps' checks are concatenated.                 *)
(***************************************************************************)
RECURSIVE Chain(_)
Chain(steps) ==
    IF steps = <<>> THEN Returned(<<>>)
    ELSE IF Head(steps).raised THEN Head(steps)
    ELSE LET rest == Chain(Tail(steps))
         IN  IF rest.raised THEN rest ELSE Returned(Head(steps).checks \o rest.checks)

\* the first of the listed raise sites that raises: sites is a sequence of
\* <<condition, exception text>>
RECURSIVE FirstRaise(_)
FirstRaise(sites) ==
    IF sites = <<>> THEN ""
    ELSE IF Head(sites)[1] THEN Head(sites)[2]
    ELSE FirstRaise(Tail(sites))

AnyRaise(sites) == \E i \in 1..Len(sites) : sites[i][1]

\* a step: raise at the first raising site, else return the checks
Step(sites, checks) == IF AnyRaise(sites) THEN Raised(FirstRaise(sites)) ELSE Returned(checks)

(***************************************************************************)
(* The keyword configuration (concept_keywords.json): group -> list name   *)
(* -> patterns.  kwfile says whether the file is there and is JSON.  A     *)
(* pattern is a literal word or phrase, or the invalid pattern "(" on      *)
(* which re.search raises re.error.                                        *)
(***************************************************************************)
InvalidPattern == "("

ReError == "missing ), unterminated subpattern at position 0"

\* the keyword file as it would be read if a file that is missing or is not
\* JSON gave the full lists
load_keywords_anyway(e) == e.keywords

\* json.load, FileNotFoundError and JSONDecodeError caught: keywords = {}
load_keywords(e) == IF e.kwfile = "ok" THEN e.keywords ELSE <<>>

\* keywords.get(group, {}).get(name, [])
KwList(kw, group, name) ==
    IF group \in DOMAIN kw
    THEN IF name \in DOMAIN kw[group] THEN kw[group][name] ELSE <<>>
    ELSE <<>>

\* sum(1 for kw in kws if re.search(kw, content)) raises when a pattern is invalid
CountRaises(kws) == \E i \in 1..Len(kws) : kws[i] = InvalidPattern

_count_keyword_matches(content, kws) ==
    Cardinality({i \in 1..Len(kws) : InText(kws[i], lower_text(content))})

\* the same count on a text the caller has lower-cased already
CountMatches(kws, content) == Cardinality({i \in 1..Len(kws) : InText(kws[i], content)})

\* any(re.search(kw, content) for kw in kws): stops at the first match, and
\* raises when it meets an invalid pattern before one
AnyRaises(kws, content) ==
    \E i \in 1..Len(kws) :
        /\ kws[i] = InvalidPattern
        /\ \A j \in 1..(i - 1) : ~InText(kws[j], content)

AnyMatch(kws, content) == \E i \in 1..Len(kws) : InText(kws[i], content)

(***************************************************************************)
(* kubernetes_validator.py                                                 *)
(*                                                                         *)
(* yaml.safe_load_all is a library call: a .yaml file carries its outcome  *)
(* yaml = [ok, docs] (ok = FALSE: yaml.YAMLError).  A document is          *)
(*   type         "null" (None), "dict" or "scalar"                        *)
(*   kind         doc["kind"]                                              *)
(*   spec         "absent", "dict", or "bad" (null or a scalar: .get fails)*)
(*   template     spec.template and its spec: "absent", "dict" or "bad"    *)
(*   tcontainers  spec.template.spec.containers (tcontainers_ok = FALSE:   *)
(*                the key holds null)                                      *)
(*   bcontainers  spec.containers of a bare pod (bcontainers_ok likewise)  *)
(*   and the truthiness of the fields the checks read.                     *)
(* A container is type "dict" or "scalar", resources "absent", "dict" or   *)
(* "bad" (null or a scalar), with the truthiness of the fields read and    *)
(* image as <<>> (none), <<name>> (no colon) or <<name, tag>>.             *)
(***************************************************************************)
K8sDir == "k8s"

IncidentDir == "k8s/incident_responses"

Scenario(n) == <<IncidentDir, "scenario_" \o ToString(n), ".md">>

StrHasNoGet == "'str' object has no attribute 'get'"

NoneHasNoGet == "'NoneType' object has no attribute 'get'"

NoneNotIterable == "argument of type 'NoneType' is not iterable"

HasCodeLines(content) == CodeLines(content) # <<>>

\* _load_yaml: none = TRUE when it returns None (only comments, or a YAMLError),
\* else the documents that are not None.  A decoding error is not caught.
_load_yaml(f) ==
    LET NotNone(d) == d.type # "null"
    IN  IF ~HasCodeLines(f.lines) THEN [none |-> TRUE, docs |-> <<>>]
        ELSE IF ~f.yaml.ok THEN [none |-> TRUE, docs |-> <<>>]
        ELSE [none |-> FALSE, docs |-> SelectSeq(f.yaml.docs, NotNone)]

\* _find_container_spec: AttributeError and TypeError are caught inside
_find_container_spec(doc) ==
    IF doc.type # "dict" \/ doc.spec # "dict" THEN <<>>
    ELSE IF doc.template = "bad" \/ ~doc.tcontainers_ok THEN <<>>
    ELSE doc.tcontainers \o (IF doc.bcontainers_ok THEN doc.bcontainers ELSE <<>>)

\* spec.template.spec of the checks that read it inside a try block
HasPodSpec(doc) == doc.type = "dict" /\ doc.spec = "dict" /\ doc.template = "dict"

PodContainers(doc) ==
    IF HasPodSpec(doc) /\ doc.tcontainers_ok THEN doc.tcontainers ELSE <<>>

\* Check 2, one document: the loop over its containers stops (break) at the
\* first one with requests and limits; "" when nothing raises
RECURSIVE ResourcesExc(_)
ResourcesExc(cs) ==
    IF cs = <<>> THEN ""
    ELSE LET c == Head(cs)
         IN  IF c.type # "dict" THEN StrHasNoGet
             ELSE IF c.resources = "bad" THEN NoneHasNoGet
             ELSE IF c.resources = "dict" /\ c.requests /\ c.limits THEN ""
             ELSE ResourcesExc(Tail(cs))

\* requests alone
HasResources_requests(c) == c.type = "dict" /\ c.resources = "dict" /\ c.requests

HasResources(c) == c.type = "dict" /\ c.resources = "dict" /\ c.requests /\ c.limits

FirstText(texts) ==
    LET hits == {i \in 1..Len(texts) : texts[i] # ""}
    IN  IF hits = {} THEN "" ELSE texts[CHOOSE i \in hits : \A j \in hits : i <= j]

ImageUntagged(image) == Len(image) = 1 \/ image[Len(image)] = "latest"

k8s_structure_checks(all_docs) ==
    LET containers == Flatten([i \in 1..Len(all_docs) |-> _find_container_spec(all_docs[i])])
        res_exc == FirstText([i \in 1..Len(all_docs) |->
                                  ResourcesExc(_find_container_spec(all_docs[i]))])
        has_resources == \E i \in 1..Len(containers) : HasResources(containers[i])
        scalar_container == \E i \in 1..Len(containers) : containers[i].type # "dict"
        has_liveness == \E i \in 1..Len(containers) : containers[i].livenessProbe
        has_readiness == \E i \in 1..Len(containers) : containers[i].readinessProbe
        IsKind(d, k) == d.type = "dict" /\ d.kind = k
        hpa_exc == \E i \in 1..Len(all_docs) :
                       IsKind(all_docs[i], "HorizontalPodAutoscaler") /\ all_docs[i].spec = "bad"
        has_hpa == \E i \in 1..Len(all_docs) :
                       /\ IsKind(all_docs[i], "HorizontalPodAutoscaler")
                       /\ all_docs[i].spec = "dict"
                       /\ all_docs[i].minReplicas /\ all_docs[i].maxReplicas
        has_anti_affinity == \E i \in 1..Len(all_docs) :
                       /\ HasPodSpec(all_docs[i])
                       /\ (all_docs[i].podAntiAffinity \/ all_docs[i].topologySpread)
        netpol_exc ==
            LET bad == {i \in 1..Len(all_docs) :
                           /\ IsKind(all_docs[i], "NetworkPolicy")
                           /\ (all_docs[i].spec = "bad" \/ ~all_docs[i].policyTypes_ok)}
            IN  IF bad = {} THEN ""
                ELSE IF all_docs[CHOOSE i \in bad : \A j \in bad : i <= j].spec = "bad"
                     THEN NoneHasNoGet ELSE NoneNotIterable
        has_netpol == \E i \in 1..Len(all_docs) :
                       /\ IsKind(all_docs[i], "NetworkPolicy")
                       /\ all_docs[i].spec = "dict"
                       /\ "Ingress" \in Range(all_docs[i].policyTypes)
        pod_cs == Flatten([i \in 1..Len(all_docs) |-> PodContainers(all_docs[i])])
        has_non_root ==
            \/ \E i \in 1..Len(all_docs) : HasPodSpec(all_docs[i]) /\ all_docs[i].podRunAsNonRoot
            \/ \E i \in 1..Len(pod_cs) : pod_cs[i].runAsNonRoot
        has_read_only_fs == \E i \in 1..Len(pod_cs) : pod_cs[i].readOnlyRootFilesystem
        sec_score == Bool2Int(has_non_root) + Bool2Int(has_read_only_fs)
        has_any_image == \E i \in 1..Len(containers) : containers[i].image # <<>>
        has_latest == \E i \in 1..Len(containers) :
                          containers[i].image # <<>> /\ ImageUntagged(containers[i].image)
        has_configmap == \E i \in 1..Len(all_docs) : IsKind(all_docs[i], "ConfigMap")
        has_configmap_ref ==
            \/ \E i \in 1..Len(pod_cs) :
                   pod_cs[i].envFromConfigMap \/ pod_cs[i].envConfigMapKeyRef
            \/ \E i \in 1..Len(all_docs) : HasPodSpec(all_docs[i]) /\ all_docs[i].volumeConfigMap
    IN  Step(<< <<res_exc # "", res_exc>>,
                <<scalar_container, StrHasNoGet>>,
                <<hpa_exc, NoneHasNoGet>>,
                <<netpol_exc # "", netpol_exc>> >>,
             << _check("Resource requests and limits", 1, has_resources, ""),
                _check("Liveness and readiness probes", 1, has_liveness /\ has_readiness, ""),
                _check("HPA with min/max replicas", 1, has_hpa, ""),
                _check("Anti-affinity or topology spread", 1, has_anti_affinity, ""),
                _check("NetworkPolicy restricts ingress", 1, has_netpol, ""),
                _check("Security context (non-root, read-only fs)", 2, sec_score >= 2,
                       "non-root=" \o YesNo(has_non_root) \o ", readOnlyRootFs="
                           \o YesNo(has_read_only_fs)),
                _check("Image tag not :latest", 1, has_any_image /\ ~has_latest,
                       IF has_latest THEN "Image uses :latest or has no tag" ELSE ""),
                _check("ConfigMap referenced from deployment", 1,
                       has_configmap /\ has_configmap_ref,
                       "configmap=" \o YesNo(has_configmap) \o ", referenced="
                           \o YesNo(has_configmap_ref)) >>)

IncidentName(n) == "Incident " \o ToString(n) \o ": root cause + remediation"

\* two points for any remedy found
incident_score_any(n, rc_matches, rem_matches) ==
    LET passed == rc_matches >= 2 /\ rem_matches >= 1
        score == (IF rc_matches >= 2 THEN 2 ELSE IF rc_matches >= 1 THEN 1 ELSE 0)
                   + (IF rem_matches >= 1 THEN 2 ELSE 0)
    IN  CheckDict(IncidentName(n), 4, Min(score, 4), passed,
                  "root_cause_keywords=" \o ToString(rc_matches)
                      \o ", remediation_keywords=" \o ToString(rem_matches))

\* the check of one incident response, from its two keyword counts
incident_score(n, rc_matches, rem_matches) ==
    LET passed == rc_matches >= 2 /\ rem_matches >= 1
        score == (IF rc_matches >= 2 THEN 2 ELSE IF rc_matches >= 1 THEN 1 ELSE 0)
                   + (IF rem_matches >= 1 THEN Min(rem_matches, 2) ELSE 0)
    IN  CheckDict(IncidentName(n), 4, Min(score, 4), passed,
                  "root_cause_keywords=" \o ToString(rc_matches)
                      \o ", remediation_keywords=" \o ToString(rem_matches))

\* one pass of the incident loop, the response read and lower-cased
incident_response(n, content, rc_keywords, rem_keywords) ==
    IF content = EmptyText \/ StrippedLen(content) < 100
    THEN Returned(<<_check(IncidentName(n), 4, FALSE, "Response is empty or too short")>>)
    ELSE Step(<< <<CountRaises(rc_keywords), ReError>>,
                 <<CountRaises(rem_keywords), ReError>> >>,
              <<incident_score(n, CountMatches(rc_keywords, content),
                               CountMatches(rem_keywords, content))>>)

IncidentKws(keywords, n, name) == KwList(keywords, "incident_" \o ToString(n), name)

k8s_incident_check(s, keywords, n) ==
    IF ReadRaises(s, Scenario(n)) THEN Raised(UnicodeDecodeError)
    ELSE incident_response(n, lower_text(_read_file(s, Scenario(n))),
                           IncidentKws(keywords, n, "root_cause"),
                           IncidentKws(keywords, n, "remediation"))

\* the prevention loop: exc[n] says that the search raises on scenario n,
\* hit[n] that one of its prevention keywords is found
prevention_step(exc, hit) ==
    Step(<< <<exc[1], ReError>>, <<exc[2], ReError>>, <<exc[3], ReError>> >>,
         <<_check("Prevention measures in incident responses", 1,
                  Cardinality({n \in 1..3 : hit[n]}) >= 2, "")>>)

k8s_prevention_check(s, keywords) ==
    prevention_step([n \in 1..3 |-> AnyRaises(IncidentKws(keywords, n, "prevention"),
                                              lower_text(_read_file(s, Scenario(n))))],
                    [n \in 1..3 |-> AnyMatch(IncidentKws(keywords, n, "prevention"),
                                             lower_text(_read_file(s, Scenario(n))))])

\* the names of all the files that gave nothing
ParseErrors_none(files, loaded) ==
    Flatten([i \in 1..Len(files) |-> IF loaded[i].none THEN <<Name(files[i].path)>> ELSE <<>>])

\* the names of the files that hold content and did not parse
ParseErrors(files, loaded) ==
    LET IsError(i) == loaded[i].none /\ HasCodeLines(files[i].lines)
    IN  Flatten([i \in 1..Len(files) |-> IF IsError(i) THEN <<Name(files[i].path)>> ELSE <<>>])

\* Check 1
yaml_parsing_check(files, parse_errors, has_content) ==
    Step(<< <<\E i \in 1..Len(files) : Undecodable(files[i].lines), UnicodeDecodeError>> >>,
         <<IF parse_errors # <<>>
           THEN _check("YAML parsing", 3, FALSE,
                       "Parse errors in: " \o Join(parse_errors, ", "))
           ELSE _check("YAML parsing", 3, has_content,
                       IF has_content THEN "" ELSE "No YAML content found")>>)

\* the documents of the files that parsed, file after file
AllDocs(loaded) ==
    Flatten([i \in 1..Len(loaded) |-> IF loaded[i].none THEN <<>> ELSE loaded[i].docs])

\* validate() on the listed files and what _load_yaml gave for each
kubernetes_checks(s, q, files, loaded, keywords) ==
    Chain(<<yaml_parsing_check(files, ParseErrors(files, loaded),
                               \E i \in 1..Len(loaded) : ~loaded[i].none)>>
          \o (IF q THEN <<>>
              ELSE <<k8s_structure_checks(AllDocs(loaded)),
                     k8s_incident_check(s, keywords, 1),
                     k8s_incident_check(s, keywords, 2),
                     k8s_incident_check(s, keywords, 3),
                     k8s_prevention_check(s, keywords)>>))

LoadAll(files) == [i \in 1..Len(files) |-> _load_yaml(files[i])]

kubernetes_validator_validate(s, e, q) ==
    IF ~isdir(s, K8sDir)
    THEN Returned(<<_check("K8s directory exists", 3, FALSE, "submission/k8s/ not found")>>)
    ELSE kubernetes_checks(s, q, listdir(s, K8sDir, {".yaml", ".yml"}),
                           LoadAll(listdir(s, K8sDir, {".yaml", ".yml"})), load_keywords(e))

(***************************************************************************)
(* The prose normalizer _strip_md_template (document_validator.py; the     *)
(* copies in shell_validator.py and pipeline_validator.py follow).         *)
(***************************************************************************)
\* the line break and the blank between two words, as elements of a content
\* written as one stream
NL == "\\n"

SP == " "

\* The words in which a comment delimiter stands next to other characters, cut
\* at the delimiter: the regular expression finds "<!--" and "-->" wherever
\* they occur, inside a word as well.
DelimiterTable ==
    ("<!<!--" :> <<"<!", "<!--">>) @@ ("-->--" :> <<"-->", "--">>)

Pieces(tok) == Get(DelimiterTable, tok, <<tok>>)

RECURSIVE LineStream(_)
LineStream(line) ==
    IF line = <<>> THEN <<>>
    ELSE IF Len(line) = 1 THEN Pieces(line[1])
    ELSE Pieces(line[1]) \o <<SP>> \o LineStream(Tail(line))

RECURSIVE ToStream(_)
ToStream(content) ==
    IF Len(content) = 1 THEN LineStream(content[1])
    ELSE LineStream(content[1]) \o <<NL>> \o ToStream(Tail(content))

\* the words of a stretch of a stream without line breaks: the pieces between
\* two blanks are one word again
RECURSIVE Words(_, _)
Words(pieces, word) ==
    IF pieces = <<>> THEN (IF word = "" THEN <<>> ELSE <<word>>)
    ELSE IF Head(pieces) = SP
         THEN (IF word = "" THEN <<>> ELSE <<word>>) \o Words(Tail(pieces), "")
         ELSE Words(Tail(pieces), word \o Head(pieces))

RECURSIVE FromStream(_)
FromStream(stream) ==
    LET breaks == {i \in 1..Len(stream) : stream[i] = NL}
    IN  IF breaks = {} THEN <<Words(stream, "")>>
        ELSE LET b == CHOOSE i \in breaks : \A j \in breaks : i <= j
             IN  <<Words(SubSeq(stream, 1, b - 1), "")>>
                     \o FromStream(SubSeq(stream, b + 1, Len(stream)))

\* re.sub(r'<!--.*?-->', '', content, flags=re.DOTALL): each "<!--" is removed
\* with everything up to the first "-->" after it, line breaks included; a
\* "<!--" that is never closed stays
RECURSIVE RemoveHtmlComments(_)
RemoveHtmlComments(stream) ==
    LET opens == {i \in 1..Len(stream) :
                      /\ stream[i] = "<!--"
                      /\ \E j \in (i + 1)..Len(stream) : stream[j] = "-->"}
    IN  IF opens = {} THEN stream
        ELSE LET a == CHOOSE i \in opens : \A j \in opens : i <= j
                 closes == {j \in (a + 1)..Len(stream) : stream[j] = "-->"}
                 z == CHOOSE i \in closes : \A j \in closes : i <= j
             IN  SubSeq(stream, 1, a - 1)
                     \o RemoveHtmlComments(SubSeq(stream, z + 1, Len(stream)))

\* tokens made of "|" and "-" only, with the number of "|" in each
PipeDashTokens == ("|" :> 1) @@ ("-" :> 0) @@ ("---" :> 0) @@ ("||" :> 2) @@ ("|---|---|" :> 3)

\* re.match(r'^\|[\s\-|]+\|$', stripped)
IsTableSeparator(line) ==
    /\ line # <<>>
    /\ \A i \in 1..Len(line) : line[i] \in DOMAIN PipeDashTokens
    /\ PipeDashTokens[line[1]] > 0
    /\ PipeDashTokens[line[Len(line)]] > 0
    /\ LineLen(line) >= 3

\* re.match(r'^\|\s*\|\s*\|\s*\|\s*\|$', stripped): five "|" and blanks
IsEmptyTableRow(line) ==
    /\ line # <<>>
    /\ \A i \in 1..Len(line) : line[i] \in {"|", "||"}
    /\ SumSeq([i \in 1..Len(line) |-> PipeDashTokens[line[i]]]) = 5

_strip_md_template(content) ==
    LET uncommented == FromStream(RemoveHtmlComments(ToStream(content)))
        Keep(line) ==
            /\ ~StartsWith(line, "#")
            /\ ~IsTableSeparator(line)
            /\ ~IsEmptyTableRow(line)
            /\ line # <<"-">>
    IN  join_lines(SelectSeq(splitlines(uncommented), Keep))

(***************************************************************************)
(* The external linter.  env.shellcheck is "absent" (FileNotFoundError),   *)
(* "timeout" (subprocess.TimeoutExpired) or "runs"; when it runs, its      *)
(* return code is 0 on the files whose lint field is TRUE.                 *)
(***************************************************************************)
\* subprocess.run([...]).returncode != 0, the two exceptions caught
ShellcheckFails(e, f) == e.shellcheck = "runs" /\ ~f.lint

(***************************************************************************)
(* document_validator.py                                                   *)
(***************************************************************************)
DebugDir == "debug"

RcaMd == <<DebugDir, "root_cause_analysis", ".md">>

RemediationSh == <<DebugDir, "remediation", ".sh">>

PostmortemMd == <<DebugDir, "postmortem", ".md">>

ProductMd == <<DebugDir, "product_recommendations", ".md">>

\* Checks 1 and 2 as they would be without the cap: one point for every keyword
\* matched
rca_checks_uncapped(mtu_matches, vpn_matches, timeline_matches) ==
    << CheckDict("RCA: identifies MTU as root cause", 3,
                 mtu_matches, mtu_matches >= 3,
                 "MTU-related keywords matched: " \o ToString(mtu_matches)),
       CheckDict("RCA: identifies VPN tunnel + packet fragmentation", 3,
                 vpn_matches, vpn_matches >= 3,
                 "VPN-related keywords matched: " \o ToString(vpn_matches)),
       _check("RCA: correct timeline reconstruction", 1,
              timeline_matches >= 3,
              "Timeline keywords matched: " \o ToString(timeline_matches)) >>

\* Checks 1 to 3, from the three keyword counts
rca_checks(mtu_matches, vpn_matches, timeline_matches) ==
    << CheckDict("RCA: identifies MTU as root cause", 3,
                 Min(mtu_matches, 3), mtu_matches >= 3,
                 "MTU-related keywords matched: " \o ToString(mtu_matches)),
       CheckDict("RCA: identifies VPN tunnel + packet fragmentation", 3,
                 Min(vpn_matches, 3), vpn_matches >= 3,
                 "VPN-related keywords matched: " \o ToString(vpn_matches)),
       _check("RCA: correct timeline reconstruction", 1,
              timeline_matches >= 3,
              "Timeline keywords matched: " \o ToString(timeline_matches)) >>

rca_step(rca_content, mtu_kws, vpn_kws, timeline_kws) ==
    Step(<< <<CountRaises(mtu_kws), ReError>>,
            <<CountRaises(vpn_kws), ReError>>,
            <<CountRaises(timeline_kws), ReError>> >>,
         rca_checks(_count_keyword_matches(rca_content, mtu_kws),
                    _count_keyword_matches(rca_content, vpn_kws),
                    _count_keyword_matches(rca_content, timeline_kws)))

\* two points taken off for the linter's warnings
remediation_check_twice(sets_mtu, shebang, verifies, lint_fails) ==
    LET found == Bool2Int(sets_mtu) + Bool2Int(shebang) + Bool2Int(verifies)
        warned == found > 0 /\ lint_fails
        rem_score == IF warned THEN Max(found - 2, 0) ELSE found
        rem_details ==
            (IF sets_mtu THEN <<"sets MTU">> ELSE <<>>)
                \o (IF shebang THEN <<"shebang + error handling">> ELSE <<>>)
                \o (IF verifies THEN <<"verification step">> ELSE <<>>)
                \o (IF warned THEN <<"shellcheck warnings">> ELSE <<>>)
    IN  Returned(<<CheckDict("remediation.sh: sets MTU, passes shellcheck", 3,
                             rem_score, rem_score >= 2,
                             IF rem_details # <<>>
                             THEN "Found: " \o Join(rem_details, ", ")
                             ELSE "Script not implemented")>>)

\* Check 4, from the three tests on the script and the linter's verdict
remediation_check(sets_mtu, shebang, verifies, lint_fails) ==
    LET found == Bool2Int(sets_mtu) + Bool2Int(shebang) + Bool2Int(verifies)
        warned == found > 0 /\ lint_fails
        rem_score == IF warned THEN Max(found - 1, 0) ELSE found
        rem_details ==
            (IF sets_mtu THEN <<"sets MTU">> ELSE <<>>)
                \o (IF shebang THEN <<"shebang + error handling">> ELSE <<>>)
                \o (IF verifies THEN <<"verification step">> ELSE <<>>)
                \o (IF warned THEN <<"shellcheck warnings">> ELSE <<>>)
    IN  Returned(<<CheckDict("remediation.sh: sets MTU, passes shellcheck", 3,
                             rem_score, rem_score >= 2,
                             IF rem_details # <<>>
                             THEN "Found: " \o Join(rem_details, ", ")
                             ELSE "Script not implemented")>>)

remediation_step(remediation_content, rem_stripped, rem_lower, lint_fails) ==
    LET has_code == Len(NonBlankLines(rem_stripped)) >= 3
    IN  remediation_check(
            has_code /\ InText("mtu", rem_lower)
                /\ AnyIn({"1500", "ip link", "ifconfig", "netplan"}, rem_lower),
            has_code /\ TextStartsWith(remediation_content, "#!/")
                /\ InText("set -e", remediation_content),
            has_code /\ AnyIn({"verify", "check", "test", "ip link show", "ping"}, rem_lower),
            lint_fails)

\* Check 5
postmortem_check(pm_matches, has_action_items) ==
    LET pm_score == Bool2Int(pm_matches >= 4) + Bool2Int(has_action_items)
    IN  CheckDict("postmortem.md: all sections, action items", 2,
                  pm_score, pm_score >= 1,
                  "Sections matched: " \o ToString(pm_matches)
                      \o ", action items: " \o YesNo(has_action_items))

postmortem_step(pm_kws, postmortem_raw, postmortem_content) ==
    Step(<< <<CountRaises(pm_kws), ReError>> >>,
         <<postmortem_check(
               _count_keyword_matches(postmortem_content, pm_kws),
               /\ AnyIn({"action item", "action.item"}, lower_text(postmortem_raw))
               /\ StrippedLen(postmortem_content) > 200)>>)

\* Check 6 as it would be without the cap: one point for every keyword matched
product_check_uncapped(mon_matches) ==
    CheckDict("product_recommendations.md: monitoring + automated detection",
              3, mon_matches, mon_matches >= 2,
              "Monitoring/detection keywords matched: " \o ToString(mon_matches))

\* Check 6
product_check(mon_matches) ==
    CheckDict("product_recommendations.md: monitoring + automated detection",
              3, Min(mon_matches, 3), Min(mon_matches, 3) >= 2,
              "Monitoring/detection keywords matched: " \o ToString(mon_matches))

product_step(mon_kws, product_content) ==
    Step(<< <<CountRaises(mon_kws), ReError>> >>,
         <<product_check(_count_keyword_matches(product_content, mon_kws))>>)

\* validate() once the four files are read: `reads` raises when one of them
\* does not decode
document_checks(q, keywords, reads, rca_content, remediation_content, postmortem_raw, postmortem_content, product_content, lint_fails) ==
    Chain(<<reads,
            rca_step(rca_content, KwList(keywords, "debug_rca_mtu", "keywords"),
                     KwList(keywords, "debug_rca_vpn", "keywords"),
                     KwList(keywords, "debug_timeline", "keywords"))>>
          \o (IF q THEN <<>>
              ELSE <<remediation_step(remediation_content,
                                      join_lines(CodeLines(remediation_content)),
                                      lower_text(join_lines(CodeLines(remediation_content))),
                                      lint_fails),
                     postmortem_step(KwList(keywords, "postmortem_sections", "keywords"),
                                     postmortem_raw, postmortem_content),
                     product_step(KwList(keywords, "monitoring_recommendations", "keywords"),
                                  product_content)>>))

document_validator_validate(s, e, q) ==
    document_checks(q, load_keywords(e),
                    Step(<< <<ReadRaises(s, RcaMd), UnicodeDecodeError>>,
                            <<ReadRaises(s, RemediationSh), UnicodeDecodeError>>,
                            <<ReadRaises(s, PostmortemMd), UnicodeDecodeError>>,
                            <<ReadRaises(s, ProductMd), UnicodeDecodeError>> >>, <<>>),
                    lower_text(_strip_md_template(_read_file(s, RcaMd))),
                    _read_file(s, RemediationSh),
                    _read_file(s, PostmortemMd),
                    lower_text(_strip_md_template(_read_file(s, PostmortemMd))),
                    lower_text(_strip_md_template(_read_file(s, ProductMd))),
                    ShellcheckFails(e, FileAt(s, RemediationSh)))

(***************************************************************************)
(* shell_validator.py                                                      *)
(***************************************************************************)
NetworkDir == "network"

EdgeDir == "edge"

CameraPy == <<NetworkDir, "camera_discovery", ".py">>

FirewallSh == <<NetworkDir, "firewall_rules", ".sh">>

SitePlanMd == <<NetworkDir, "site_plan", ".md">>

SetupSh == <<EdgeDir, "setup", ".sh">>

GoldenImageMd == <<EdgeDir, "golden_image", ".md">>

\* re.sub(r'\s+#\s.*$', '', line): the line is cut at the first "#" that stands
\* alone between two blanks
StripInlineComment(line) ==
    LET marks == {i \in 2..(Len(line) - 1) : line[i] = "#"}
    IN  IF marks = {} THEN line
        ELSE SubSeq(line, 1, (CHOOSE i \in marks : \A j \in marks : i <= j) - 1)

_strip_shell_comments(content) ==
    LET NotComment(line) == ~StartsWith(line, "#")
        kept == SelectSeq(splitlines(content), NotComment)
    IN  join_lines([i \in 1..Len(kept) |-> StripInlineComment(kept[i])])

shell_strip_md_template(content) ==
    LET uncommented == FromStream(RemoveHtmlComments(ToStream(content)))
        Keep(line) ==
            /\ ~StartsWith(line, "#")
            /\ ~IsTableSeparator(line)
            /\ ~IsEmptyTableRow(line)
            /\ line # <<"-">>
    IN  join_lines(SelectSeq(splitlines(uncommented), Keep))

\* one line of code is enough
_has_substantial_code_any(content, min_lines) ==
    LET IsCode(line) ==
            /\ IsCodeLine(line)
            /\ lower_line(line) # <<"pass">>
            /\ ~InLine("todo", lower_line(line))
    IN  Len(SelectSeq(splitlines(content), IsCode)) >= 1

_has_substantial_code(content, min_lines) ==
    LET IsCode(line) ==
            /\ IsCodeLine(line)
            /\ lower_line(line) # <<"pass">>
            /\ ~InLine("todo", lower_line(line))
    IN  Len(SelectSeq(splitlines(content), IsCode)) >= min_lines

\* _run_shellcheck as it would be without the two except clauses: only the
\* return code of a linter that ran counts as success
_run_shellcheck_strict(e, f) == e.shellcheck = "runs" /\ f.lint

\* True when the linter passes, is not installed, or times out
_run_shellcheck(e, f) ==
    IF e.shellcheck = "runs" THEN f.lint ELSE TRUE

_has_shebang(content) == TextStartsWith(content, "#!/")

_has_set_options(content) == InText("set -e", content) \/ InText("set -euo pipefail", content)

\* re.search(r'(policy\s+(input|forward)\s+drop|-P\s+(INPUT|FORWARD)\s+DROP)',
\* content, re.IGNORECASE): \s+ also crosses line breaks
HasDropPolicy(content) ==
    LET toks == Flatten(lower_text(content))
    IN  \E i \in 1..(Len(toks) - 2) :
            /\ ("policy" \in SuffixesOf(toks[i]) \/ "-p" \in SuffixesOf(toks[i]))
            /\ toks[i + 1] \in {"input", "forward"}
            /\ "drop" \in PrefixesOf(toks[i + 2])

\* "rotate " in text: the word, then a blank
HasRotateBlank(content) ==
    \E i \in 1..Len(content) : \E j \in 1..(Len(content[i]) - 1) :
        "rotate" \in SuffixesOf(content[i][j])

\* func_bodies of Check 6: name -> whether the last FunctionDef of that name
\* that ast.walk visits has a real statement
HasImplementedFuncs(tree) ==
    \E i \in 1..Len(tree.funcs) :
        /\ \A j \in (i + 1)..Len(tree.funcs) : tree.funcs[j].name # tree.funcs[i].name
        /\ \E k \in 1..Len(tree.funcs[i].body) : IsRealStmt(tree.funcs[i].body[k])

\* the .sh files of network/ and edge/, in the order they are collected
ShFiles(s) ==
    (IF isdir(s, NetworkDir) THEN listdir(s, NetworkDir, {".sh"}) ELSE <<>>)
        \o (IF isdir(s, EdgeDir) THEN listdir(s, EdgeDir, {".sh"}) ELSE <<>>)

\* len(non_comment) >= 5
HasScriptContent(f) == Len(CodeLines(f.lines)) >= 5

ContentScripts(sh_files) == SelectSeq(sh_files, HasScriptContent)

\* the names of the scripts with content on which the linter fails
FailedScripts(e, content_scripts) ==
    Flatten([i \in 1..Len(content_scripts) |->
                 IF _run_shellcheck(e, content_scripts[i]) THEN <<>>
                 ELSE <<Name(content_scripts[i].path)>>])

\* Check 1 as it would be without the has_content_scripts == 0 branch
shellcheck_step_lenient(sh_files, has_content_scripts, failed_scripts) ==
    Step(<< <<\E i \in 1..Len(sh_files) : Undecodable(sh_files[i].lines),
              UnicodeDecodeError>> >>,
         <<IF failed_scripts # <<>>
           THEN _check("shellcheck passes on .sh files", 2, FALSE,
                       "Failed: " \o Join(failed_scripts, ", "))
           ELSE _check("shellcheck passes on .sh files", 2, TRUE, "")>>)

\* Check 1
shellcheck_step(sh_files, has_content_scripts, failed_scripts) ==
    Step(<< <<\E i \in 1..Len(sh_files) : Undecodable(sh_files[i].lines),
              UnicodeDecodeError>> >>,
         <<IF has_content_scripts = 0
           THEN _check("shellcheck passes on .sh files", 2, FALSE,
                       "No shell scripts with content found")
           ELSE IF failed_scripts # <<>>
           THEN _check("shellcheck passes on .sh files", 2, FALSE,
                       "Failed: " \o Join(failed_scripts, ", "))
           ELSE _check("shellcheck passes on .sh files", 2, TRUE, "")>>)

\* Check 2
syntax_step(raises, camera_content, tree) ==
    Step(<< <<raises, UnicodeDecodeError>> >>,
         <<_check("Python syntax valid (camera_discovery.py)", 1,
                  camera_content # EmptyText /\ tree.error = "", "")>>)

\* Check 3
drop_step(raises, firewall_content) ==
    Step(<< <<raises, UnicodeDecodeError>> >>,
         <<_check("Firewall: default DROP policy", 3, HasDropPolicy(firewall_content), "")>>)

\* Check 4, from the three rules found
rules_check(rtsp, https, ssh) ==
    LET fw_score == Bool2Int(rtsp) + Bool2Int(https) + Bool2Int(ssh)
        fw_details ==
            (IF rtsp THEN <<"RTSP from camera VLAN">> ELSE <<>>)
                \o (IF https THEN <<"HTTPS outbound">> ELSE <<>>)
                \o (IF ssh THEN <<"SSH from management">> ELSE <<>>)
    IN  Returned(<<_check("Firewall: RTSP, HTTPS, SSH, camera isolation", 3,
                          fw_score >= 2,
                          IF fw_details # <<>>
                          THEN "Found: " \o Join(fw_details, ", ")
                          ELSE "Missing firewall rules")>>)

rules_step(fw_substantial, firewall_content, fw_lower) ==
    rules_check(fw_substantial /\ AnyIn({"554", "rtsp"}, fw_lower)
                    /\ AnyIn({"camera", "10.50.20", "eno2"}, fw_lower),
                fw_substantial /\ InText("443", firewall_content)
                    /\ AnyIn({"output", "outbound", "established"}, fw_lower),
                fw_substantial /\ InText("22", firewall_content)
                    /\ AnyIn({"10.50.1.", "management", "mgmt"}, fw_lower))

\* Check 5, from the five things found
setup_check(docker, ntp, rotation, systemd, errors) ==
    LET setup_score == Bool2Int(docker) + Bool2Int(ntp) + Bool2Int(rotation)
                           + Bool2Int(systemd) + Bool2Int(errors)
        setup_details ==
            (IF docker THEN <<"Docker">> ELSE <<>>)
                \o (IF ntp THEN <<"NTP">> ELSE <<>>)
                \o (IF rotation THEN <<"log rotation">> ELSE <<>>)
                \o (IF systemd THEN <<"systemd service">> ELSE <<>>)
                \o (IF errors THEN <<"error handling">> ELSE <<>>)
    IN  _check("setup.sh: Docker, NTP, log rotation, systemd, error handling", 5,
               setup_score >= 3,
               "Found: " \o Join(setup_details, ", ") \o " ("
                   \o ToString(setup_score) \o "/5)")

setup_step(raises, setup_raw, setup_lower, setup_substantial) ==
    Step(<< <<raises, UnicodeDecodeError>> >>,
         <<setup_check(
               setup_substantial
                   /\ AnyIn({"apt-get install.*docker", "docker-ce", "install docker",
                             "docker.io"}, setup_lower),
               setup_substantial
                   /\ AnyIn({"ntp", "chrony", "timedatectl", "timesyncd"}, setup_lower),
               setup_substantial
                   /\ (AnyIn({"logrotate", "log rotation", "log-rotate", "maxsize"}, setup_lower)
                           \/ HasRotateBlank(setup_lower)),
               setup_substantial
                   /\ AnyIn({"systemctl", "systemd", ".service", "wantedby"}, setup_lower),
               _has_set_options(setup_raw) /\ setup_substantial)>>)

\* Check 6, from the three usages found
camera_check(xml, json, timeout) ==
    LET cam_score == Bool2Int(xml) + Bool2Int(json) + Bool2Int(timeout)
        cam_details ==
            (IF xml THEN <<"XML parsing">> ELSE <<>>)
                \o (IF json THEN <<"JSON output">> ELSE <<>>)
                \o (IF timeout THEN <<"timeout handling">> ELSE <<>>)
    IN  Returned(<<_check("camera_discovery.py: XML parsing, JSON output, timeout", 3,
                          cam_score >= 2,
                          IF cam_details # <<>>
                          THEN "Found: " \o Join(cam_details, ", ")
                          ELSE "Skeleton not implemented")>>)

camera_step(implemented, camera_content) ==
    camera_check(implemented
                     /\ AnyIn({".parse(", ".fromstring(", "findall(", "find(", "iter("},
                              camera_content),
                 implemented /\ AnyIn({"json.dump(", "json.dumps("}, camera_content),
                 implemented
                     /\ AnyIn({"timeout", "TimeoutError", "socket.timeout"}, camera_content))

\* the site plan kept only when it has five lines of content
SitePlan(site_stripped) ==
    IF Len(NonBlankLines(site_stripped)) < 5 THEN EmptyText ELSE site_stripped

\* Check 7
site_check(vlan_matches, ip_matches) ==
    _check("site_plan.md: VLAN design, IP scheme, isolation", 2,
           Bool2Int(vlan_matches >= 2) + Bool2Int(ip_matches >= 2) >= 1,
           "VLAN keywords=" \o ToString(vlan_matches) \o ", IP keywords="
               \o ToString(ip_matches))

site_step(raises, site_plan, vlan_kws, ip_kws) ==
    Step(<< <<raises, UnicodeDecodeError>>,
            <<CountRaises(vlan_kws), ReError>>,
            <<CountRaises(ip_kws), ReError>> >>,
         <<site_check(CountMatches(vlan_kws, site_plan), CountMatches(ip_kws, site_plan))>>)

\* Check 8
golden_check(gi_matches) ==
    _check("golden_image.md: creation process, patching strategy", 1,
           gi_matches >= 2, "Concept keywords matched: " \o ToString(gi_matches))

golden_step(raises, golden_content, gi_kws) ==
    Step(<< <<raises, UnicodeDecodeError>>, <<CountRaises(gi_kws), ReError>> >>,
         <<golden_check(CountMatches(gi_kws, golden_content))>>)

\* validate() on the files read
shell_checks(s, e, q, sh_files, camera_content, tree, firewall_raw, setup_raw, keywords) ==
    Chain(<<shellcheck_step(sh_files, Len(ContentScripts(sh_files)),
                            FailedScripts(e, ContentScripts(sh_files))),
            syntax_step(ReadRaises(s, CameraPy), camera_content, tree)>>
          \o (IF q THEN <<>>
              ELSE <<drop_step(ReadRaises(s, FirewallSh), _strip_shell_comments(firewall_raw)),
                     rules_step(_has_substantial_code(firewall_raw, 8),
                                _strip_shell_comments(firewall_raw),
                                lower_text(_strip_shell_comments(firewall_raw))),
                     setup_step(ReadRaises(s, SetupSh), setup_raw,
                                lower_text(_strip_shell_comments(setup_raw)),
                                _has_substantial_code(setup_raw, 10)),
                     camera_step(camera_content # EmptyText /\ tree.error = ""
                                     /\ HasImplementedFuncs(tree),
                                 camera_content),
                     site_step(ReadRaises(s, SitePlanMd),
                               SitePlan(lower_text(shell_strip_md_template(
                                            _read_file(s, SitePlanMd)))),
                               KwList(keywords, "site_plan_vlan", "keywords"),
                               KwList(keywords, "site_plan_ip", "keywords")),
                     golden_step(ReadRaises(s, GoldenImageMd),
                                 lower_text(shell_strip_md_template(
                                     _read_file(s, GoldenImageMd))),
                                 KwList(keywords, "golden_image", "keywords"))>>))

shell_validator_validate(s, e, q) ==
    shell_checks(s, e, q, ShFiles(s), _read_file(s, CameraPy), FileAt(s, CameraPy).ast,
                 _read_file(s, FirewallSh), _read_file(s, SetupSh), load_keywords(e))

(***************************************************************************)
(* pipeline_validator.py                                                   *)
(***************************************************************************)
CicdDir == "cicd"

PipelineYaml == <<CicdDir, "pipeline", ".yaml">>

MonitoringMd == <<CicdDir, "monitoring_setup", ".md">>

_strip_yaml_comments(content) ==
    LET NotComment(line) == ~StartsWith(line, "#")
    IN  join_lines(SelectSeq(splitlines(content), NotComment))

pipeline_strip_md_template(content) ==
    LET uncommented == FromStream(RemoveHtmlComments(ToStream(content)))
        Keep(line) ==
            /\ ~StartsWith(line, "#")
            /\ ~IsTableSeparator(line)
            /\ line # <<"-">>
    IN  join_lines(SelectSeq(splitlines(uncommented), Keep))

\* yaml.safe_load: "error" (yaml.YAMLError: a malformed stream, or more than
\* one document), "none" (no document, or a null one) or "value"
yaml_safe_load(f) ==
    IF ~f.yaml.ok \/ Len(f.yaml.docs) > 1 THEN "error"
    ELSE IF f.yaml.docs = <<>> \/ f.yaml.docs[1].type = "null" THEN "none"
    ELSE "value"

\* Check 1
pipeline_syntax(raises, content, parsed) ==
    Step(<< <<raises, UnicodeDecodeError>> >>,
         <<IF \A i \in 1..Len(content) : content[i] = <<>>
           THEN _check("Pipeline YAML syntax", 1, FALSE, "pipeline.yaml is empty")
           ELSE IF ~HasCodeLines(content)
           THEN _check("Pipeline YAML syntax", 1, FALSE,
                       "pipeline.yaml has no YAML content")
           ELSE IF parsed = "error"
           THEN _check("Pipeline YAML syntax", 1, FALSE,
                       "YAML error: could not parse the stream")
           ELSE _check("Pipeline YAML syntax", 1, parsed # "none", "")>>)

\* one point taken off for each of the two orderings that is violated
stages_check_each(has_build, has_test, has_deploy, build_pos, test_pos, deploy_pos) ==
    LET wrong == Bool2Int(has_build /\ has_test /\ build_pos > test_pos)
                     + Bool2Int(has_test /\ has_deploy /\ test_pos > deploy_pos)
        found == Bool2Int(has_build) + Bool2Int(has_test) + Bool2Int(has_deploy)
        stage_score == Max(found - wrong, 0)
    IN  Returned(<<CheckDict("Build + test + deploy stages in order", 3,
                             stage_score, stage_score >= 3,
                             "build=" \o YesNo(has_build) \o ", test=" \o YesNo(has_test)
                                 \o ", deploy=" \o YesNo(has_deploy) \o ", order="
                                 \o (IF wrong = 0 THEN "correct" ELSE "incorrect"))>>)

\* Check 2, from the stages found and where each is first found
stages_check(has_build, has_test, has_deploy, build_pos, test_pos, deploy_pos) ==
    LET order_ok == ~(has_build /\ has_test /\ build_pos > test_pos)
                        /\ ~(has_test /\ has_deploy /\ test_pos > deploy_pos)
        found == Bool2Int(has_build) + Bool2Int(has_test) + Bool2Int(has_deploy)
        stage_score == IF order_ok THEN found ELSE Max(found - 1, 0)
    IN  Returned(<<CheckDict("Build + test + deploy stages in order", 3,
                             stage_score, stage_score >= 3,
                             "build=" \o YesNo(has_build) \o ", test=" \o YesNo(has_test)
                                 \o ", deploy=" \o YesNo(has_deploy) \o ", order="
                                 \o (IF order_ok THEN "correct" ELSE "incorrect"))>>)

stages_step(content_lower) ==
    stages_check(InText("build", content_lower), InText("test", content_lower),
                 InText("deploy", content_lower), Find("build", content_lower),
                 Find("test", content_lower), Find("deploy", content_lower))

\* Check 3, from the three things found
deployment_check(ecr, staging, gate) ==
    LET ecr_score == Bool2Int(ecr) + Bool2Int(staging) + Bool2Int(gate)
        ecr_details ==
            (IF ecr THEN <<"ECR/container push">> ELSE <<>>)
                \o (IF staging THEN <<"staging deploy">> ELSE <<>>)
                \o (IF gate THEN <<"manual approval gate">> ELSE <<>>)
    IN  Returned(<<CheckDict("ECR push, staging deploy, prod manual gate", 3,
                             ecr_score, ecr_score >= 2,
                             IF ecr_details # <<>>
                             THEN "Found: " \o Join(ecr_details, ", ")
                             ELSE "Missing deployment stages")>>)

deployment_step(content_lower) ==
    deployment_check(AnyIn({"ecr", "docker push", "docker build", "container registry"},
                           content_lower),
                     AnyIn({"staging", "stage"}, content_lower),
                     AnyIn({"manual", "approval", "approve", "environment.*protection",
                            "required_reviewers", "gate", "confirm"}, content_lower))

\* Check 4
rollback_step(content_lower) ==
    Returned(<<_check("Rollback/failure handling in pipeline", 1,
                      AnyIn({"rollback", "roll back", "undo", "revert", "failure",
                             "on_failure", "if.*fail"}, content_lower), "")>>)

\* Check 6, from the three things found
monitoring_check(metrics, slos, alerting) ==
    LET mon_score == Bool2Int(metrics) + Bool2Int(slos) + Bool2Int(alerting)
        mon_details ==
            (IF metrics THEN <<"metrics">> ELSE <<>>)
                \o (IF slos THEN <<"SLOs">> ELSE <<>>)
                \o (IF alerting THEN <<"alerting + escalation">> ELSE <<>>)
    IN  CheckDict("monitoring_setup.md: metrics, SLOs, alerting, escalation", 3,
                  mon_score, mon_score >= 2,
                  IF mon_details # <<>>
                  THEN "Found: " \o Join(mon_details, ", ")
                  ELSE "Insufficient monitoring detail")

monitoring_step(raises, monitoring_content, metrics_kws, slo_kws, alert_kws, esc_kws) ==
    Step(<< <<raises, UnicodeDecodeError>>,
            <<CountRaises(metrics_kws), ReError>>,
            <<CountRaises(slo_kws), ReError>>,
            <<CountRaises(alert_kws), ReError>>,
            <<CountRaises(esc_kws), ReError>> >>,
         <<monitoring_check(CountMatches(metrics_kws, monitoring_content) >= 3,
                            CountMatches(slo_kws, monitoring_content) >= 2,
                            CountMatches(alert_kws, monitoring_content) >= 2
                                /\ CountMatches(esc_kws, monitoring_content) >= 1)>>)

\* validate() on pipeline.yaml as read
pipeline_checks(s, q, content, content_lower, keywords) ==
    Chain(<<pipeline_syntax(ReadRaises(s, PipelineYaml), content,
                            yaml_safe_load(FileAt(s, PipelineYaml)))>>
          \o (IF q THEN <<>>
              ELSE <<stages_step(content_lower),
                     deployment_step(content_lower),
                     rollback_step(content_lower),
                     monitoring_step(
                         ReadRaises(s, MonitoringMd),
                         lower_text(pipeline_strip_md_template(_read_file(s, MonitoringMd))),
                         KwList(keywords, "monitoring_setup_metrics", "keywords"),
                         KwList(keywords, "monitoring_setup_slo", "keywords"),
                         KwList(keywords, "monitoring_setup_alerting", "keywords"),
                         KwList(keywords, "monitoring_setup_escalation", "keywords"))>>))

pipeline_validator_validate(s, e, q) ==
    pipeline_checks(s, q, _read_file(s, PipelineYaml),
                    lower_text(_strip_yaml_comments(_read_file(s, PipelineYaml))),
                    load_keywords(e))

(***************************************************************************)
(* terraform_validator.py                                                  *)
(*                                                                         *)
(* hcl2.load is a library call: a .tf file carries its outcome             *)
(* hcl = [ok, resource] (ok = FALSE: it raises; resource: the parsed dict  *)
(* has a "resource" key).  env.hcl2 is HCL2_AVAILABLE.                     *)
(***************************************************************************)
TfDir == "terraform"

CostTf == <<TfDir, "cost_optimization", ".tf">>

NetworkingTf == <<TfDir, "networking", ".tf">>

KeyFiles == << <<TfDir, "main", ".tf">>, NetworkingTf, <<TfDir, "variables", ".tf">> >>

\* the tokens that hold a double quote
QuotedTokens == {"\"t3.micro\"", "\"spot\"", "\"#\"", "\"a"}

\* the parsed dict, or None (FALSE) on any exception, a decoding error included
_parse_hcl_file(e, f) == e.hcl2 /\ ~Undecodable(f.lines) /\ f.hcl.ok

\* re.sub(r'\s*#(?!.*").*$', '', line): the line is cut at the first "#" that
\* has no double quote after it
StripTfInlineComment(line) ==
    LET marks == {i \in 1..Len(line) :
                      /\ "#" \in PrefixesOf(line[i])
                      /\ \A j \in (i + 1)..Len(line) : line[j] \notin QuotedTokens}
    IN  IF marks = {} THEN line
        ELSE SubSeq(line, 1, (CHOOSE i \in marks : \A j \in marks : i <= j) - 1)

_strip_tf_comments(content) ==
    LET NotComment(line) == ~StartsWith(line, "#") /\ ~StartsWith(line, "//")
        kept == SelectSeq(splitlines(content), NotComment)
    IN  join_lines([i \in 1..Len(kept) |-> StripTfInlineComment(kept[i])])

CostMarkers ==
    {"todo", "hint:", "task:", "requirements:", "implement", "---",
     "your cost analysis", "such as:", "address the findings"}

AnalysisMarkers ==
    CostMarkers \cup
    {"analyze", "propose", "explain", "describe", "consider", "lifecycle policies",
     "spot/mixed", "right-siz", "cost-sav", "cost_optimization.tf", "cost report"}

\* the comment lines of more than 10 characters that hold none of the markers
CommentLinesWithout(content, markers) ==
    LET Counts(line) ==
            /\ StartsWith(line, "#")
            /\ LineLen(line) > 10
            /\ ~\E m \in markers : InLine(m, lower_line(line))
    IN  SelectSeq(splitlines(content), Counts)

\* re.findall(r'ingress\s*\{[^}]*(?:from_port\s*=\s*22|to_port\s*=\s*22)[^}]*\}')
\* has a block that holds "0.0.0.0/0"
SshOpen(content) ==
    LET toks == Flatten(content)
        n == Len(toks)
        Port22(i) ==
            /\ i + 2 <= n
            /\ toks[i] \in {"from_port", "to_port"}
            /\ toks[i + 1] = "="
            /\ "22" \in PrefixesOf(toks[i + 2])
    IN  \E a \in 1..n : \E z \in (a + 2)..n :
            /\ "ingress" \in SuffixesOf(toks[a]) /\ toks[a + 1] = "{"
            /\ toks[z] = "}"
            /\ \A k \in (a + 2)..(z - 1) : toks[k] # "}"
            /\ \E k \in (a + 2)..(z - 3) : Port22(k)
            /\ \E k \in (a + 2)..(z - 1) : "0.0.0.0/0" \in Parts(toks[k])

\* the names of the files _parse_hcl_file gives None for
TfParseErrors(e, tf_files) ==
    Flatten([i \in 1..Len(tf_files) |->
                 IF _parse_hcl_file(e, tf_files[i]) THEN <<>>
                 ELSE <<Name(tf_files[i].path)>>])

\* Check 1
hcl_parsing_step(e, tf_files, parse_errors) ==
    Returned(<<IF ~e.hcl2
               THEN _check("HCL parsing (python-hcl2)", 5, FALSE,
                           "python-hcl2 not installed")
               ELSE IF parse_errors # <<>>
               THEN _check("HCL parsing", 5, FALSE,
                           "Parse errors in: " \o Join(parse_errors, ", "))
               ELSE _check("HCL parsing", 5, Len(tf_files) > 0,
                           IF tf_files = <<>> THEN "No .tf files found" ELSE "")>>)

\* l.strip() and not l.strip().startswith("#") and not l.strip().startswith("//")
IsTfContentLine(line) == line # <<>> /\ ~StartsWith(line, "#") /\ ~StartsWith(line, "//")

\* the key files with more than three lines of content
FilesWithContent(s) ==
    Cardinality({i \in 1..Len(KeyFiles) :
        Len(SelectSeq(splitlines(_read_file(s, KeyFiles[i])), IsTfContentLine)) > 3})

\* a file that parsed has a resource block
HasResourceBlocks(e, tf_files) ==
    \E i \in 1..Len(tf_files) : _parse_hcl_file(e, tf_files[i]) /\ tf_files[i].hcl.resource

\* Check 2
plan_step(raises, plan_ok) ==
    Step(<< <<raises, UnicodeDecodeError>> >>,
         <<_check("Plan structure (resource blocks exist)", 5, plan_ok,
                  IF plan_ok THEN "" ELSE "Missing resource blocks in Terraform files")>>)

\* Check 3, from the components found
vpc_check(has_vpc, has_public_subnet, has_private_subnet, has_nat, has_igw) ==
    LET vpc_score == Bool2Int(has_vpc) + Bool2Int(has_public_subnet /\ has_private_subnet)
                         + Bool2Int(has_nat) + Bool2Int(has_igw)
    IN  _check("VPC: public + private subnets, NAT gateway", 4, vpc_score >= 3,
               "VPC components found: " \o ToString(vpc_score)
                   \o "/4 (VPC, subnets, NAT, IGW)")

vpc_step(raises, all_content, content_lower) ==
    Step(<< <<raises, UnicodeDecodeError>> >>,
         <<vpc_check(InText("aws_vpc", all_content),
                     InText("public", content_lower) /\ InText("aws_subnet", all_content),
                     InText("private", content_lower) /\ InText("aws_subnet", all_content),
                     InText("aws_nat_gateway", all_content),
                     InText("aws_internet_gateway", all_content))>>)

\* Check 4
ssh_step(ssh_open) ==
    Returned(<<_check("Security groups: no 0.0.0.0/0 on SSH", 2, ~ssh_open,
                      IF ssh_open THEN "SSH (port 22) is open to 0.0.0.0/0" ELSE "")>>)

\* Check 5, from the components found
eks_check(has_eks_cluster, has_eks_node_group, has_iam_role) ==
    Returned(<<_check("EKS: cluster, IAM roles, node groups", 2,
                      Bool2Int(has_eks_cluster)
                          + Bool2Int(has_eks_node_group /\ has_iam_role) >= 2,
                      "EKS components: cluster=" \o YesNo(has_eks_cluster)
                          \o ", node_group=" \o YesNo(has_eks_node_group)
                          \o ", iam=" \o YesNo(has_iam_role))>>)

eks_step(all_content) ==
    eks_check(InText("aws_eks_cluster", all_content),
              InText("aws_eks_node_group", all_content),
              InText("aws_iam_role", all_content))

\* Check 6, from the measures found
cost_check(spot, lifecycle, rightsizing, commented) ==
    LET cost_score == Bool2Int(spot) + Bool2Int(lifecycle) + Bool2Int(rightsizing)
                          + Bool2Int(commented)
        cost_details ==
            (IF spot THEN <<"spot/mixed instances">> ELSE <<>>)
                \o (IF lifecycle THEN <<"S3 lifecycle">> ELSE <<>>)
                \o (IF rightsizing THEN <<"rightsizing">> ELSE <<>>)
                \o (IF commented THEN <<"cost analysis comments">> ELSE <<>>)
    IN  Returned(<<_check("Cost optimization: spot, lifecycle, rightsizing", 4,
                          cost_score >= 2,
                          IF cost_details # <<>>
                          THEN "Found: " \o Join(cost_details, ", ")
                          ELSE "No cost optimization measures found")>>)

cost_step(cost_content_raw, cost_lower) ==
    cost_check(AnyIn({"spot", "mixed_instances", "mixed instance", "on_demand_percentage"},
                     cost_lower),
               AnyIn({"lifecycle", "transition", "glacier", "infrequent_access",
                      "intelligent_tiering"}, cost_lower),
               AnyIn({"rightsize", "right-size", "smaller instance", "instance_type",
                      "graviton"}, cost_lower),
               Len(CommentLinesWithout(cost_content_raw, CostMarkers)) >= 5)

\* Check 7, from the three things the analysis holds
analysis_check(savings, amounts, risks) ==
    Returned(<<_check("Cost analysis: report review and savings proposals", 3,
                      Bool2Int(savings) + Bool2Int(amounts) + Bool2Int(risks) >= 2,
                      "Cost analysis depth: "
                          \o ToString(Bool2Int(savings) + Bool2Int(amounts) + Bool2Int(risks))
                          \o "/3")>>)

analysis_step(substantial, analysis_text) ==
    analysis_check(
        substantial /\ AnyIn({"monthly cost", "total cost", "saving", "reduce",
                              "current spend"}, analysis_text),
        substantial /\ AnyIn({"$", "usd", "percent", "%", "estimated"}, analysis_text),
        substantial /\ AnyIn({"trade-off", "tradeoff", "risk", "consideration", "impact"},
                             analysis_text))

\* the contents of the .tf files, one after the other
AllContent(tf_files) == Flatten([i \in 1..Len(tf_files) |-> tf_files[i].lines])

\* validate() on the listed .tf files
terraform_checks(s, e, q, tf_files, all_content, cost_content_raw, analysis_comments) ==
    Chain(<<hcl_parsing_step(e, tf_files, TfParseErrors(e, tf_files)),
            plan_step(\E i \in 1..Len(KeyFiles) : ReadRaises(s, KeyFiles[i]),
                      FilesWithContent(s) >= 2 /\ HasResourceBlocks(e, tf_files))>>
          \o (IF q THEN <<>>
              ELSE <<vpc_step(\E i \in 1..Len(tf_files) : Undecodable(tf_files[i].lines),
                              all_content, lower_text(all_content)),
                     ssh_step(\E i \in 1..Len(tf_files) : SshOpen(tf_files[i].lines)),
                     eks_step(all_content),
                     cost_step(cost_content_raw,
                               lower_text(_strip_tf_comments(cost_content_raw))),
                     analysis_step(Len(analysis_comments) >= 5,
                                   lower_text(join_lines(analysis_comments)))>>))

terraform_validator_validate(s, e, q) ==
    IF ~isdir(s, TfDir)
    THEN Returned(<<_check("Terraform directory exists", 5, FALSE,
                           "submission/terraform/ not found")>>)
    ELSE terraform_checks(s, e, q, listdir(s, TfDir, {".tf"}),
                          AllContent(listdir(s, TfDir, {".tf"})), _read_file(s, CostTf),
                          CommentLinesWithout(_read_file(s, CostTf), AnalysisMarkers))

(***************************************************************************)
(* scoring.py                                                              *)
(***************************************************************************)
\* MODULE_CONFIG in its insertion order; the weight is not used in arithmetic
MODULE_CONFIG ==
    << [name |-> "terraform", max_score |-> 25],
       [name |-> "k8s", max_score |-> 25],
       [name |-> "network", max_score |-> 20],
       [name |-> "cicd", max_score |-> 15],
       [name |-> "debug", max_score |-> 15] >>

\* compute_module_score as it would be if every check were all or nothing: the
\* max_points of the checks that passed
compute_module_score_passed(checks) ==
    SumSeq([i \in 1..Len(checks) |-> IF checks[i].passed THEN checks[i].max_points ELSE 0])

compute_module_score(checks) ==
    SumSeq([i \in 1..Len(checks) |-> checks[i].points_awarded])

\* score_to_band as it would be with strict comparisons
score_to_band_strict(score) ==
    IF score > 80 THEN "Strong Hire"
    ELSE IF score > 65 THEN "Hire"
    ELSE IF score > 50 THEN "Borderline"
    ELSE "No Hire"

score_to_band(score) ==
    IF score >= 80 THEN "Strong Hire"
    ELSE IF score >= 65 THEN "Hire"
    ELSE IF score >= 50 THEN "Borderline"
    ELSE "No Hire"

\* module_results.get(module_name, [])
ResultsGet(results, name) == IF name \in DOMAIN results THEN results[name] ELSE <<>>

\* compute_total_score as it would be if it went through the modules that
\* were run instead of through MODULE_CONFIG
compute_total_score_of_run(results) ==
    LET ran == {i \in 1..Len(MODULE_CONFIG) : ResultsGet(results, MODULE_CONFIG[i].name) # <<>>}
        modules == [name \in {MODULE_CONFIG[i].name : i \in ran} |->
                        [score |-> compute_module_score(results[name]),
                         max |-> (CHOOSE c \in Range(MODULE_CONFIG) : c.name = name).max_score,
                         checks |-> results[name]]]
        total_score == SumSeq([i \in 1..Len(MODULE_CONFIG) |->
                                   IF i \in ran THEN modules[MODULE_CONFIG[i].name].score ELSE 0])
        max_score == SumSeq([i \in 1..Len(MODULE_CONFIG) |->
                                 IF i \in ran THEN MODULE_CONFIG[i].max_score ELSE 0])
    IN  [total_score |-> total_score,
         max_score |-> max_score,
         band |-> score_to_band(total_score),
         modules |-> modules]

compute_total_score(results) ==
    LET names == {MODULE_CONFIG[i].name : i \in 1..Len(MODULE_CONFIG)}
        Config(name) == CHOOSE c \in Range(MODULE_CONFIG) : c.name = name
        modules == [name \in names |->
                        [score |-> compute_module_score(ResultsGet(results, name)),
                         max |-> Config(name).max_score,
                         checks |-> ResultsGet(results, name)]]
        total_score == SumSeq([i \in 1..Len(MODULE_CONFIG) |->
                                   modules[MODULE_CONFIG[i].name].score])
        max_score == SumSeq([i \in 1..Len(MODULE_CONFIG) |-> MODULE_CONFIG[i].max_score])
    IN  [total_score |-> total_score,
         max_score |-> max_score,
         band |-> score_to_band(total_score),
         modules |-> modules]

(***************************************************************************)
(* evaluate.py                                                             *)
(***************************************************************************)
MODULE_VALIDATORS ==
    [terraform |-> <<"terraform_validator">>,
     k8s |-> <<"kubernetes_validator">>,
     network |-> <<"shell_validator">>,
     cicd |-> <<"pipeline_validator", "python_validator">>,
     debug |-> <<"document_validator">>]

VALID_MODULES == <<"terraform", "k8s", "network", "cicd", "debug">>

\* validator.validate(submission_dir, quick=quick)
Validate(validator, s, e, q) ==
    CASE validator = "terraform_validator" -> terraform_validator_validate(s, e, q)
      [] validator = "kubernetes_validator" -> kubernetes_validator_validate(s, e, q)
      [] validator = "shell_validator" -> shell_validator_validate(s, e, q)
      [] validator = "pipeline_validator" -> pipeline_validator_validate(s, e, q)
      [] validator = "python_validator" -> python_validator_validate(s, e, q)
      [] validator = "document_validator" -> document_validator_validate(s, e, q)

\* the check run_module appends when a validator raises
ErrorCheck(validator, exc) ==
    [name |-> "Validator error (evaluation.validators." \o validator \o ")",
     max_points |-> 0,
     points_awarded |-> 0,
     passed |-> FALSE,
     details |-> exc]

\* the validator called without the quick flag
Invoke_full(validator, s, e, q) ==
    [validator |-> validator, outcome |-> Validate(validator, s, e, FALSE)]

\* one pass of run_module's loop: the validator called, and what the call did
Invoke(validator, s, e, q) ==
    [validator |-> validator, outcome |-> Validate(validator, s, e, q)]

\* MODULE_VALIDATORS.get(module_name, [])
ValidatorsOf(module_name) ==
    IF module_name \in DOMAIN MODULE_VALIDATORS THEN MODULE_VALIDATORS[module_name] ELSE <<>>

\* run_module's loop as it would be without the try block: the first call
\* that raises is the last one made
RunValidatorsUntilRaise(validators, s, e, q) ==
    LET raising == {i \in 1..Len(validators) : Validate(validators[i], s, e, q).raised}
        last == IF raising = {} THEN Len(validators)
                ELSE CHOOSE i \in raising : \A j \in raising : i <= j
    IN  [i \in 1..last |-> Invoke(validators[i], s, e, q)]

\* run_module's loop as it would be if the validators appended to one list
\* they share and returned it: a call returns the checks of the calls before
\* it too
RunValidatorsSharingChecks(validators, s, e, q) ==
    [i \in 1..Len(validators) |->
         [validator |-> validators[i],
          outcome |->
              IF Validate(validators[i], s, e, q).raised
              THEN Validate(validators[i], s, e, q)
              ELSE Returned(Flatten([j \in 1..i |->
                                         Validate(validators[j], s, e, q).checks]))]]

\* run_module's loop: every validator of the list is called, whatever the
\* calls before it did
RunValidators(validators, s, e, q) ==
    [i \in 1..Len(validators) |-> Invoke(validators[i], s, e, q)]

\* the checks run_module collects from the calls: checks.extend(result), or
\* the error check appended in the except clause
Collected(runs) ==
    Flatten([i \in 1..Len(runs) |->
                 IF runs[i].outcome.raised
                 THEN <<ErrorCheck(runs[i].validator, runs[i].outcome.exc)>>
                 ELSE runs[i].outcome.checks])

run_module(module_name, s, e, q) ==
    Collected(RunValidators(ValidatorsOf(module_name), s, e, q))

\* the module argument None
NoModule == "None"

\* before evaluate has returned
NoResult == [total_score |-> 0, max_score |-> 0, band |-> "", modules |-> <<>>]

NoReference == [valid |-> FALSE, result |-> NoResult]

(***************************************************************************)
(* Sample inputs: files, parser outcomes, keyword configurations.          *)
(***************************************************************************)
NoYaml == [ok |-> FALSE, docs |-> <<>>]

NoHcl == [ok |-> FALSE, resource |-> FALSE]

NoAst == [error |-> "SyntaxError", funcs |-> <<>>, attributes |-> {}, calls |-> {}]

TextFile(path, lines) ==
    [path |-> path, lines |-> lines, yaml |-> NoYaml, hcl |-> NoHcl, ast |-> NoAst,
     lint |-> TRUE]

YamlFile(path, lines, ok, docs) ==
    [TextFile(path, lines) EXCEPT !.yaml = [ok |-> ok, docs |-> docs]]

TfFile(path, lines, ok, resource) ==
    [TextFile(path, lines) EXCEPT !.hcl = [ok |-> ok, resource |-> resource]]

PyFile(path, lines, tree) == [TextFile(path, lines) EXCEPT !.ast = tree]

ShFile(path, lines, lint) == [TextFile(path, lines) EXCEPT !.lint = lint]

\* a content whose last line ends with a line break
Lines(ls) == ls \o << <<>> >>

Tree(funcs, attributes, calls) ==
    [error |-> "", funcs |-> funcs, attributes |-> attributes, calls |-> calls]

Func(name, body) == [name |-> name, body |-> body]

Container ==
    [type |-> "dict", resources |-> "absent", requests |-> FALSE, limits |-> FALSE,
     livenessProbe |-> FALSE, readinessProbe |-> FALSE, image |-> <<>>,
     runAsNonRoot |-> FALSE, readOnlyRootFilesystem |-> FALSE,
     envFromConfigMap |-> FALSE, envConfigMapKeyRef |-> FALSE]

Doc(kind) ==
    [type |-> "dict", kind |-> kind, spec |-> "dict", template |-> "absent",
     tcontainers_ok |-> TRUE, tcontainers |-> <<>>,
     bcontainers_ok |-> TRUE, bcontainers |-> <<>>,
     minReplicas |-> FALSE, maxReplicas |-> FALSE,
     podAntiAffinity |-> FALSE, topologySpread |-> FALSE,
     policyTypes_ok |-> TRUE, policyTypes |-> <<>>,
     podRunAsNonRoot |-> FALSE, volumeConfigMap |-> FALSE]

NullDoc == [Doc("") EXCEPT !.type = "null", !.spec = "absent"]

ScalarDoc == [Doc("") EXCEPT !.type = "scalar", !.spec = "absent"]

\* a workload (Deployment, DaemonSet, StatefulSet) with its pod template
Workload(kind, containers) ==
    [Doc(kind) EXCEPT !.template = "dict", !.tcontainers = containers]

Keywords(list) == [keywords |-> list]

KwFull ==
    [incident_1 |-> [root_cause |-> <<"oomkilled", "memory", "limit">>,
                     remediation |-> <<"increase", "restart">>,
                     prevention |-> <<"alert", "quota">>],
     incident_2 |-> [root_cause |-> <<"dns", "resolver", "ndots">>,
                     remediation |-> <<"coredns", "cache">>,
                     prevention |-> <<"probe", "dashboard">>],
     incident_3 |-> [root_cause |-> <<"disk", "pressure", "eviction">>,
                     remediation |-> <<"cleanup", "resize">>,
                     prevention |-> <<"retention", "alert">>],
     debug_rca_mtu |-> Keywords(<<"mtu", "1500", "1400", "fragment">>),
     debug_rca_vpn |-> Keywords(<<"vpn", "tunnel", "ipsec", "overhead">>),
     debug_timeline |-> Keywords(<<"timeline", "deployed", "degraded", "resolved">>),
     postmortem_sections |-> Keywords(<<"summary", "impact", "timeline", "cause", "lessons">>),
     monitoring_recommendations |-> Keywords(<<"alert", "dashboard", "probe", "synthetic">>),
     site_plan_vlan |-> Keywords(<<"vlan", "trunk", "isolation">>),
     site_plan_ip |-> Keywords(<<"subnet", "dhcp", "gateway">>),
     golden_image |-> Keywords(<<"packer", "patch", "baseline">>),
     monitoring_setup_metrics |-> Keywords(<<"latency", "error", "throughput", "saturation">>),
     monitoring_setup_slo |-> Keywords(<<"slo", "availability", "budget">>),
     monitoring_setup_alerting |-> Keywords(<<"alert", "pagerduty", "threshold">>),
     monitoring_setup_escalation |-> Keywords(<<"escalation", "oncall">>)]

\* the same file with an invalid pattern in the groups the full-mode checks read
KwBadPattern ==
    [KwFull EXCEPT !.monitoring_setup_slo = Keywords(<<"slo", InvalidPattern>>),
                   !.incident_1 = [root_cause |-> <<"oomkilled", "memory">>,
                                   remediation |-> <<"increase">>,
                                   prevention |-> <<InvalidPattern, "alert">>],
                   !.golden_image = Keywords(<<InvalidPattern>>),
                   !.postmortem_sections = Keywords(<<"summary", InvalidPattern>>)]

\* an invalid pattern in a group a quick-mode check reads
KwBadQuickPattern == [KwFull EXCEPT !.debug_rca_vpn = Keywords(<<InvalidPattern, "vpn">>)]

\* a file without the incident groups and without the "keywords" list of a group
KwPartial ==
    [debug_rca_mtu |-> Keywords(<<"mtu", "1500", "1400", "fragment">>),
     debug_rca_vpn |-> [patterns |-> <<"vpn", "tunnel">>],
     site_plan_vlan |-> Keywords(<<"vlan", "trunk", "isolation">>)]

Env(shellcheck, hcl2, kwfile, keywords) ==
    [shellcheck |-> shellcheck, hcl2 |-> hcl2, kwfile |-> kwfile, keywords |-> keywords]

DefaultEnv == Env("runs", TRUE, "ok", KwFull)

Envs ==
    << DefaultEnv,
       Env("absent", TRUE, "ok", KwFull),
       Env("timeout", TRUE, "ok", KwFull),
       Env("runs", FALSE, "ok", KwFull),
       Env("runs", TRUE, "missing", KwFull),
       Env("runs", TRUE, "invalid", KwFull),
       Env("runs", TRUE, "ok", KwPartial),
       Env("runs", TRUE, "ok", KwBadPattern),
       Env("absent", TRUE, "ok", KwBadQuickPattern),
       Env("absent", FALSE, "missing", KwFull) >>

(***************************************************************************)
(* Sample module directories: [dirs, files], the directories a module's    *)
(* validators look into and the files in them, in listing order.           *)
(***************************************************************************)
Sample(dirs, files) == [dirs |-> dirs, files |-> files]

NoDirectory == Sample({}, <<>>)

FillerLine == <<"the", "team", "reviewed", "the", "configuration", "and", "the", "logs">>

\* a document: its own lines, then ProseLines lines of further prose
Prose(ls) == Lines(ls \o Repeat(FillerLine, ProseLines))

\* a script of ScriptLines lines: a shebang, its own lines, then further commands
Script(ls, more) ==
    Lines(<< <<"#!/bin/bash">> >> \o ls \o Repeat(more, ScriptLines - Len(ls) - 1))

\* ---- terraform/ ----
MainTfLines ==
    Lines(<< <<"resource", "aws_eks_cluster", "main", "{">>,
             <<"name", "=", "prod">>,
             <<"}">>,
             <<"resource", "aws_eks_node_group", "workers", "{">>,
             <<"instance_types", "=", "t3.large">>,
             <<"}">>,
             <<"resource", "aws_iam_role", "eks", "{">>,
             <<"}">> >>)

SecurityGroup(cidr) ==
    << <<"resource", "aws_security_group", "ssh", "{">>,
       <<"ingress", "{">>,
       <<"from_port", "=", "22">>,
       <<"to_port", "=", "22">>,
       <<"cidr_blocks", "=", cidr>>,
       <<"}">>,
       <<"}">> >>

NetworkingTfLines(cidr) ==
    Lines(<< <<"resource", "aws_vpc", "main", "{">>, <<"}">>,
             <<"resource", "aws_subnet", "Public", "{">>, <<"}">>,
             <<"resource", "aws_subnet", "Private", "{">>, <<"}">>,
             <<"resource", "aws_nat_gateway", "nat", "{">>, <<"}">>,
             <<"resource", "aws_internet_gateway", "igw", "{">>, <<"}">> >>
          \o SecurityGroup(cidr))

VariablesTfLines ==
    Lines(<< <<"variable", "region", "{">>,
             <<"default", "=", "us-east-1">>,
             <<"}">>,
             <<"variable", "cluster_name", "{">>,
             <<"}">> >>)

AnalysisComment == <<"#", "spot", "nodes", "give", "a", "saving", "of", "$120", "at", "low", "risk">>

CostTfLines ==
    Lines(Repeat(AnalysisComment, 5)
          \o << <<"resource", "aws_eks_node_group", "spot", "{">>,
                <<"capacity_type", "=", "Spot">>,
                <<"lifecycle", "{">>, <<"}">>,
                <<"}">> >>)

\* the analysis written as comments, and no code
CostTfCommentsOnly == Lines(Repeat(AnalysisComment, 5))

\* the template: instructions as comments, every one of them holding a marker
CostTfTemplate ==
    Lines(<< <<"#", "TODO", "implement", "your", "cost", "optimization", "here">>,
             <<"#", "hint:", "spot", "instances", "and", "lifecycle", "rules">>,
             <<"#", "requirements:", "address", "the", "findings", "of", "the", "cost", "report">>,
             <<"#", "TODO", "explain", "the", "saving", "in", "$", "and", "the", "risk">>,
             <<"#", "TODO", "describe", "the", "trade-off">> >>)

TfTemplateLines ==
    Lines(<< <<"#", "TODO", "define", "the", "resources">>,
             <<"terraform", "{">>,
             <<"}">> >>)

Tf(stem, lines, ok, resource) == TfFile(<<TfDir, stem, ".tf">>, lines, ok, resource)

TfGood ==
    Sample({TfDir},
           << Tf("cost_optimization", CostTfLines, TRUE, TRUE),
              Tf("main", MainTfLines, TRUE, TRUE),
              Tf("networking", NetworkingTfLines("10.50.1.0/24"), TRUE, TRUE),
              Tf("variables", VariablesTfLines, TRUE, FALSE) >>)

TfSkeleton ==
    Sample({TfDir},
           << Tf("cost_optimization", CostTfTemplate, TRUE, FALSE),
              Tf("main", TfTemplateLines, TRUE, FALSE),
              Tf("networking", TfTemplateLines, TRUE, FALSE),
              Tf("variables", VariablesTfLines, TRUE, FALSE) >>)

TfEmptyDir == Sample({TfDir}, <<>>)

TfParseError ==
    Sample({TfDir},
           << Tf("cost_optimization", CostTfLines, TRUE, TRUE),
              Tf("main", MainTfLines, FALSE, FALSE),
              Tf("networking", NetworkingTfLines("10.50.1.0/24"), TRUE, TRUE),
              Tf("variables", VariablesTfLines, TRUE, FALSE) >>)

TfUndecodable ==
    Sample({TfDir},
           << Tf("main", MainTfLines, TRUE, TRUE),
              Tf("networking", Lines(<< <<"resource", BadByte>> >>), FALSE, FALSE),
              Tf("variables", VariablesTfLines, TRUE, FALSE) >>)

TfSshOpen ==
    Sample({TfDir},
           << Tf("cost_optimization", CostTfLines, TRUE, TRUE),
              Tf("main", MainTfLines, TRUE, TRUE),
              Tf("networking", NetworkingTfLines("[0.0.0.0/0]"), TRUE, TRUE),
              Tf("variables", VariablesTfLines, TRUE, FALSE) >>)

TfCommentOnlyCost ==
    Sample({TfDir},
           << Tf("cost_optimization", CostTfCommentsOnly, TRUE, FALSE),
              Tf("main", MainTfLines, TRUE, TRUE),
              Tf("networking", NetworkingTfLines("10.50.1.0/24"), TRUE, TRUE),
              Tf("variables", VariablesTfLines, TRUE, FALSE) >>)

\* a cost_optimization.tf left as its template, all comments, that the parser
\* rejects
TfTemplateUnparsed ==
    Sample({TfDir},
           << Tf("cost_optimization", CostTfTemplate, FALSE, FALSE),
              Tf("main", MainTfLines, TRUE, TRUE),
              Tf("networking", NetworkingTfLines("10.50.1.0/24"), TRUE, TRUE),
              Tf("variables", VariablesTfLines, TRUE, FALSE) >>)

TfNoResource ==
    Sample({TfDir},
           << Tf("main", VariablesTfLines, TRUE, FALSE),
              Tf("variables", VariablesTfLines, TRUE, FALSE) >>)

TfSamples ==
    <<NoDirectory, TfGood, TfSkeleton, TfEmptyDir, TfParseError, TfUndecodable, TfSshOpen,
      TfCommentOnlyCost, TfNoResource,
      TfTemplateUnparsed>>

\* ---- k8s/ ----
GoodContainer ==
    [Container EXCEPT !.resources = "dict", !.requests = TRUE, !.limits = TRUE,
                      !.livenessProbe = TRUE, !.readinessProbe = TRUE,
                      !.image = <<"registry/app", "1.4.2">>,
                      !.runAsNonRoot = TRUE, !.readOnlyRootFilesystem = TRUE,
                      !.envFromConfigMap = TRUE]

\* a container written as a bare string: `containers: [nginx]`
ScalarContainer == [Container EXCEPT !.type = "scalar"]

\* `resources:` with nothing after it
NullResourcesContainer == [GoodContainer EXCEPT !.resources = "bad"]

LatestContainer == [GoodContainer EXCEPT !.image = <<"registry/app", "latest">>]

PlainContainer == [Container EXCEPT !.image = <<"nginx">>]

Deployment(containers) ==
    [Workload("Deployment", containers) EXCEPT !.podAntiAffinity = TRUE]

Hpa == [Doc("HorizontalPodAutoscaler") EXCEPT !.minReplicas = TRUE, !.maxReplicas = TRUE]

NetPol == [Doc("NetworkPolicy") EXCEPT !.policyTypes = <<"Ingress">>]

ConfigMap == [Doc("ConfigMap") EXCEPT !.spec = "absent"]

\* a bare Pod: its containers are under spec.containers
Pod(containers) == [Doc("Pod") EXCEPT !.bcontainers = containers]

ManifestLines ==
    Lines(<< <<"apiVersion:", "apps/v1">>, <<"kind:", "Deployment">>, <<"---">>,
             <<"kind:", "ConfigMap">> >>)

CommentOnlyLines == Lines(<< <<"#", "TODO", "write", "the", "manifests">>, <<>> >>)

\* only document separators: a stream of no document
SeparatorLines == Lines(<< <<"---">>, <<"---">> >>)

K8sYaml(stem, lines, ok, docs) == YamlFile(<<K8sDir, stem, ".yaml">>, lines, ok, docs)

IncidentLines(n) ==
    CASE n = 1 -> Prose(<< <<"the", "pod", "was", "OOMKilled", "at", "its", "memory", "limit">>,
                           <<"increase", "the", "limit", "and", "restart", "the", "pod">>,
                           <<"add", "an", "alert", "and", "a", "quota">> >>)
      [] n = 2 -> Prose(<< <<"the", "dns", "resolver", "timed", "out", "under", "ndots">>,
                           <<"scale", "coredns", "and", "enable", "the", "cache">>,
                           <<"add", "a", "probe", "and", "a", "dashboard">> >>)
      [] OTHER -> Prose(<< <<"disk", "pressure", "caused", "the", "eviction">>,
                           <<"cleanup", "the", "images", "and", "resize", "the", "volume">>,
                           <<"set", "a", "retention", "policy">> >>)

\* a response that names one root-cause word and no remediation
PartialIncidentLines == Prose(<< <<"the", "memory", "was", "exhausted">> >>)

\* the template: headings and a commented instruction
IncidentTemplate ==
    Lines(<< <<"##", "Root", "Cause">>,
             <<"<!--", "describe", "the", "memory", "limit", "-->">>,
             <<"##", "Remediation">> >>)

\* responses that match some of the keywords of their scenario: two causes and
\* one remedy, one cause and two remedies, no cause and two remedies
MixedIncidentLines(n) ==
    CASE n = 1 -> Prose(<< <<"the", "pod", "hit", "its", "memory", "limit">>,
                           <<"increase", "it">> >>)
      [] n = 2 -> Prose(<< <<"the", "dns", "was", "slow">>,
                           <<"scale", "coredns", "and", "enable", "the", "cache">> >>)
      [] OTHER -> Prose(<< <<"the", "cause", "is", "unknown">>,
                           <<"cleanup", "the", "images", "and", "resize", "the", "volume">> >>)

ShortIncidentLines == Lines(<< <<"memory", "limit", "increase", "alert">> >>)

Incident(n, lines) == TextFile(Scenario(n), lines)

GoodIncidents == <<Incident(1, IncidentLines(1)), Incident(2, IncidentLines(2)),
                   Incident(3, IncidentLines(3))>>

GoodManifests ==
    << K8sYaml("deployment", ManifestLines, TRUE,
               <<Deployment(<<GoodContainer>>), ConfigMap>>),
       K8sYaml("policies", ManifestLines, TRUE, <<Hpa, NetPol>>) >>

K8sWith(docs, incidents) ==
    Sample({K8sDir}, <<K8sYaml("deployment", ManifestLines, TRUE, docs)>> \o incidents)

K8sGood == Sample({K8sDir}, GoodManifests \o GoodIncidents)

K8sSkeleton ==
    Sample({K8sDir},
           << K8sYaml("deployment", CommentOnlyLines, TRUE, <<>>),
              Incident(1, IncidentTemplate), Incident(2, IncidentTemplate),
              Incident(3, IncidentTemplate) >>)

K8sEmptyDir == Sample({K8sDir}, <<>>)

K8sParseError ==
    Sample({K8sDir},
           << K8sYaml("broken", ManifestLines, FALSE, <<>>) >> \o GoodManifests \o GoodIncidents)

\* a manifest that does not parse, and a file of comments that the parser
\* rejects as well
K8sBrokenAndNotes ==
    Sample({K8sDir},
           << K8sYaml("broken", ManifestLines, FALSE, <<>>),
              K8sYaml("notes", CommentOnlyLines, FALSE, <<>>) >>
               \o GoodManifests \o GoodIncidents)

K8sSeparatorsOnly ==
    Sample({K8sDir}, << K8sYaml("deployment", SeparatorLines, TRUE, <<NullDoc, NullDoc>>) >>)

K8sUndecodable ==
    Sample({K8sDir},
           << K8sYaml("deployment", Lines(<< <<"kind:", BadByte>> >>), FALSE, <<>>) >>)

K8sScalarContainer ==
    K8sWith(<<Deployment(<<ScalarContainer>>), ConfigMap, Hpa, NetPol>>, GoodIncidents)

K8sNullResources ==
    K8sWith(<<Deployment(<<NullResourcesContainer>>), ConfigMap, Hpa, NetPol>>, GoodIncidents)

\* the container with no resources comes after one that has them: the loop
\* of the resources check stops before it
K8sNullResourcesLater ==
    K8sWith(<<Deployment(<<GoodContainer, NullResourcesContainer>>), ConfigMap, Hpa, NetPol>>,
            GoodIncidents)

K8sNullHpaSpec ==
    K8sWith(<<Deployment(<<GoodContainer>>), [Hpa EXCEPT !.spec = "bad"]>>, <<>>)

K8sNullPolicyTypes ==
    K8sWith(<<Deployment(<<GoodContainer>>), [NetPol EXCEPT !.policyTypes_ok = FALSE]>>, <<>>)

K8sLatest ==
    K8sWith(<<Deployment(<<LatestContainer>>), ConfigMap, Hpa, NetPol>>, GoodIncidents)

K8sBarePod ==
    K8sWith(<<Pod(<<PlainContainer>>), ScalarDoc>>,
            <<Incident(1, PartialIncidentLines), Incident(2, ShortIncidentLines),
              Incident(3, IncidentLines(3))>>)

\* one Deployment and nothing else, its one container with requests and limits
K8sOneWorkload == K8sWith(<<Deployment(<<GoodContainer>>)>>, GoodIncidents)

\* the same with `limits` taken out of the container
K8sOneWorkloadNoLimits ==
    K8sWith(<<Deployment(<<[GoodContainer EXCEPT !.limits = FALSE]>>)>>, GoodIncidents)

K8sMixedIncidents ==
    Sample({K8sDir},
           GoodManifests \o <<Incident(1, MixedIncidentLines(1)),
                              Incident(2, MixedIncidentLines(2)),
                              Incident(3, MixedIncidentLines(3))>>)

K8sUndecodableIncident ==
    Sample({K8sDir},
           GoodManifests \o <<Incident(1, IncidentLines(1)),
                              Incident(2, Lines(<< <<BadByte>> >>))>>)

K8sSamples ==
    <<NoDirectory, K8sGood, K8sSkeleton, K8sEmptyDir, K8sParseError, K8sSeparatorsOnly,
      K8sUndecodable, K8sScalarContainer, K8sNullResources, K8sNullResourcesLater,
      K8sNullHpaSpec, K8sNullPolicyTypes, K8sLatest, K8sBarePod, K8sUndecodableIncident,
      K8sOneWorkload, K8sOneWorkloadNoLimits, K8sMixedIncidents, K8sBrokenAndNotes>>

\* ---- network/ and edge/ ----
FirewallLines ==
    Script(<< <<"set", "-e">>,
              <<"iptables", "-P", "INPUT", "DROP">>,
              <<"iptables", "-P", "FORWARD", "DROP">>,
              <<"iptables", "-A", "INPUT", "-i", "eno2", "--dport", "554", "-j", "ACCEPT">>,
              <<"iptables", "-A", "OUTPUT", "--dport", "443", "-j", "ACCEPT">>,
              <<"iptables", "-A", "INPUT", "-s", "10.50.1.0/24", "--dport", "22", "-j", "ACCEPT">> >>,
           <<"iptables", "-A", "INPUT", "-j", "LOG">>)

SetupLines ==
    Script(<< <<"set", "-euo", "pipefail">>,
              <<"apt-get", "install", "-y", "docker.io">>,
              <<"apt-get", "install", "-y", "chrony">>,
              <<"logrotate", "-f", "/etc/logrotate.conf">>,
              <<"systemctl", "enable", "app.service">> >>,
           <<"echo", "done">>)

\* the template of a script: a shebang, instructions, a placeholder
ScriptTemplate ==
    Lines(<< <<"#!/bin/bash">>,
             <<"#", "TODO", "write", "the", "rules">>,
             <<"echo", "TODO">> >>)

\* four commands: fewer than the five lines the linter check asks for
ShortScript ==
    Lines(<< <<"#!/bin/bash">>,
             <<"set", "-e">>,
             <<"iptables", "-P", "INPUT", "DROP">>,
             <<"iptables", "-A", "INPUT", "--dport", "22", "-j", "ACCEPT">>,
             <<"echo", "done">> >>)

\* seven commands, one fewer than the detail check asks for, with the rules
\* the check looks for
FirewallSevenLines ==
    Lines(<< <<"#!/bin/bash">>,
             <<"set", "-e">>,
             <<"iptables", "-P", "INPUT", "DROP">>,
             <<"iptables", "-P", "FORWARD", "DROP">>,
             <<"iptables", "-A", "INPUT", "-i", "eno2", "--dport", "554", "-j", "ACCEPT">>,
             <<"iptables", "-A", "OUTPUT", "--dport", "443", "-j", "ACCEPT">>,
             <<"iptables", "-A", "INPUT", "-s", "10.50.1.0/24", "--dport", "22", "-j", "ACCEPT">>,
             <<"iptables", "-A", "INPUT", "-j", "LOG">> >>)

\* nine commands, one fewer than the setup check asks for
SetupNineLines ==
    Lines(<< <<"#!/bin/bash">>,
             <<"set", "-euo", "pipefail">>,
             <<"apt-get", "install", "-y", "docker.io">>,
             <<"apt-get", "install", "-y", "chrony">>,
             <<"logrotate", "-f", "/etc/logrotate.conf">>,
             <<"systemctl", "enable", "app.service">>,
             <<"echo", "done">>, <<"echo", "done">>, <<"echo", "done">>, <<"echo", "done">> >>)

\* four lines of content under a heading, one fewer than the site plan check
\* asks for
SitePlanFourLines ==
    Lines(<< <<"#", "Design">>,
             <<"each", "camera", "vlan", "is", "on", "a", "trunk", "port">>,
             <<"one", "subnet", "per", "vlan", "with", "a", "dhcp", "range">>,
             <<"the", "gateway", "is", "the", "first", "address">>,
             <<"isolation", "between", "the", "vlans">> >>)

CameraLines ==
    Lines(<< <<"import", "json">>,
             <<"def", "parse_onvif_response(xml):">>,
             <<"root", "=", "ET.fromstring(", "xml", ")">>,
             <<"return", "root.findall(", "device", ")">>,
             <<"def", "main():">>,
             <<"sock.settimeout(", "timeout=5", ")">>,
             <<"print(", "json.dumps(", "cameras", "))">> >>)

CameraTree ==
    Tree(<<Func("parse_onvif_response", <<"docstring", "assign", "return">>),
           Func("main", <<"expr", "expr">>)>>, {<<"json", "dumps">>}, {"dumps"})

\* every function a stub: a docstring and pass
CameraStubTree ==
    Tree(<<Func("parse_onvif_response", <<"docstring", "pass">>),
           Func("main", <<"pass">>)>>, {}, {})

\* the functions written, then defined again as stubs further down
CameraRedefinedTree ==
    Tree(<<Func("parse_onvif_response", <<"docstring", "assign", "return">>),
           Func("main", <<"expr">>),
           Func("parse_onvif_response", <<"docstring", "pass">>),
           Func("main", <<"pass">>)>>, {<<"json", "dumps">>}, {"dumps"})

SitePlanLines ==
    Prose(<< <<"each", "camera", "vlan", "is", "on", "a", "trunk", "port">>,
             <<"one", "subnet", "per", "vlan", "with", "a", "dhcp", "range">> >>)

MdTemplate ==
    Lines(<< <<"#", "Design">>,
             <<"<!--", "describe", "the", "vlan", "trunk", "subnet", "dhcp", "packer", "patch",
               "latency", "error", "throughput", "slo", "availability", "-->">>,
             <<"|", "item", "|", "value", "|">>,
             <<"|---|---|">>,
             <<"-">> >>)

GoldenImageLines == Prose(<< <<"build", "with", "packer", "and", "patch", "monthly">> >>)

Sh(path, lines, lint) == ShFile(path, lines, lint)

NetGoodWith(lint, tree) ==
    Sample({NetworkDir, EdgeDir},
           << PyFile(CameraPy, CameraLines, tree),
              Sh(FirewallSh, FirewallLines, lint),
              TextFile(SitePlanMd, SitePlanLines),
              Sh(SetupSh, SetupLines, lint),
              TextFile(GoldenImageMd, GoldenImageLines) >>)

NetGood == NetGoodWith(TRUE, CameraTree)

NetLintFails == NetGoodWith(FALSE, CameraTree)

NetCameraStubs == NetGoodWith(TRUE, CameraStubTree)

NetCameraRedefined == NetGoodWith(TRUE, CameraRedefinedTree)

NetCameraSyntaxError == NetGoodWith(TRUE, NoAst)

NetSkeleton ==
    Sample({NetworkDir, EdgeDir},
           << PyFile(CameraPy, CameraLines, CameraStubTree),
              Sh(FirewallSh, ScriptTemplate, TRUE),
              TextFile(SitePlanMd, MdTemplate),
              Sh(SetupSh, ScriptTemplate, TRUE),
              TextFile(GoldenImageMd, MdTemplate) >>)

NetEmptyDirs == Sample({NetworkDir, EdgeDir}, <<>>)

\* scripts that the linter would reject, all shorter than five lines
NetShortScripts ==
    Sample({NetworkDir, EdgeDir},
           << Sh(FirewallSh, ShortScript, FALSE), Sh(SetupSh, ShortScript, FALSE) >>)

\* one long script the linter rejects, one short script
NetOneLongScript ==
    Sample({NetworkDir},
           << Sh(FirewallSh, FirewallLines, FALSE),
              Sh(<<NetworkDir, "extra", ".sh">>, ShortScript, TRUE) >>)

\* the scripts and the site plan written, each one line short of its threshold
NetOneLineShort ==
    Sample({NetworkDir, EdgeDir},
           << PyFile(CameraPy, CameraLines, CameraTree),
              Sh(FirewallSh, FirewallSevenLines, TRUE),
              TextFile(SitePlanMd, SitePlanFourLines),
              Sh(SetupSh, SetupNineLines, TRUE),
              TextFile(GoldenImageMd, GoldenImageLines) >>)

NetUndecodableScript ==
    Sample({NetworkDir, EdgeDir},
           << Sh(FirewallSh, Lines(<< <<"#!/bin/bash">>, <<"echo", BadByte>> >>), TRUE),
              Sh(SetupSh, SetupLines, TRUE) >>)

NetUndecodablePlan ==
    Sample({NetworkDir, EdgeDir},
           << PyFile(CameraPy, CameraLines, CameraTree),
              Sh(FirewallSh, FirewallLines, TRUE),
              TextFile(SitePlanMd, Lines(<< <<"vlan", BadByte>> >>)),
              Sh(SetupSh, SetupLines, TRUE) >>)

NetSamples ==
    <<NoDirectory, NetGood, NetLintFails, NetCameraStubs, NetCameraRedefined,
      NetCameraSyntaxError, NetSkeleton, NetEmptyDirs, NetShortScripts, NetOneLongScript,
      NetUndecodableScript, NetUndecodablePlan>>

\* ---- cicd/ ----
PipelineLines ==
    Lines(<< <<"stages:">>,
             <<"-", "Build">>,
             <<"-", "test">>,
             <<"-", "Deploy">>,
             <<"docker", "push", "ecr">>,
             <<"environment:", "staging">>,
             <<"when:", "manual">>,
             <<"on_failure:", "Rollback">> >>)

\* the deploy stage written before the test stage
PipelineWrongOrder ==
    Lines(<< <<"-", "Build">>, <<"-", "Deploy">>, <<"-", "test">> >>)

\* the three stages written backwards
PipelineReversed ==
    Lines(<< <<"-", "Deploy">>, <<"-", "test">>, <<"-", "Build">> >>)

PipelineTemplate == Lines(<< <<"#", "TODO", "define", "the", "stages:", "Build", "test", "Deploy">> >>)

MonitoringLines ==
    Prose(<< <<"track", "latency", "error", "rate", "and", "throughput">>,
             <<"the", "slo", "is", "an", "availability", "target">>,
             <<"alert", "through", "pagerduty", "with", "an", "escalation", "path">> >>)

DeployLines ==
    Lines(<< <<"import", "argparse">>,
             <<"parser", "=", "argparse.ArgumentParser()">>,
             <<"parser.add_argument(", "env", ")">>,
             <<"def", "rollback_release():">>,
             <<"def", "health_check():">> >>)

DeployTree ==
    Tree(<<Func("rollback_release", <<"docstring", "expr">>),
           Func("health_check", <<"return">>)>>,
         {<<"argparse", "ArgumentParser">>, <<"parser", "add_argument">>},
         {"ArgumentParser", "add_argument"})

\* the functions defined, every body a docstring and pass
DeployStubTree ==
    Tree(<<Func("rollback_release", <<"docstring", "pass">>),
           Func("health_check", <<"pass">>)>>, {}, {})

\* the functions written, then defined again as stubs further down
DeployRedefinedTree ==
    Tree(<<Func("rollback_release", <<"expr">>), Func("health_check", <<"return">>),
           Func("rollback_release", <<"pass">>), Func("health_check", <<"pass">>)>>,
         {<<"argparse", "ArgumentParser">>}, {"ArgumentParser", "add_argument"})

CicdWith(pipeline, monitoring, deploy) ==
    Sample({CicdDir}, pipeline \o monitoring \o deploy)

GoodPipeline ==
    <<YamlFile(PipelineYaml, PipelineLines, TRUE, <<Doc("")>>)>>

GoodMonitoring == <<TextFile(MonitoringMd, MonitoringLines)>>

GoodDeploy == <<PyFile(DeployPy, DeployLines, DeployTree)>>

CicdGood == CicdWith(GoodPipeline, GoodMonitoring, GoodDeploy)

CicdSkeleton ==
    CicdWith(<<YamlFile(PipelineYaml, PipelineTemplate, TRUE, <<>>)>>,
             <<TextFile(MonitoringMd, MdTemplate)>>,
             <<PyFile(DeployPy, DeployLines, DeployStubTree)>>)

CicdEmptyDir == Sample({CicdDir}, <<>>)

CicdUndecodablePipeline ==
    CicdWith(<<YamlFile(PipelineYaml, Lines(<< <<"stages:", BadByte>> >>), FALSE, <<>>)>>,
             GoodMonitoring, GoodDeploy)

CicdUndecodableMonitoring ==
    CicdWith(GoodPipeline, <<TextFile(MonitoringMd, Lines(<< <<BadByte>> >>))>>, GoodDeploy)

CicdUndecodableDeploy ==
    CicdWith(GoodPipeline, GoodMonitoring,
             <<PyFile(DeployPy, Lines(<< <<"import", BadByte>> >>), NoAst)>>)

CicdTwoDocuments ==
    CicdWith(<<YamlFile(PipelineYaml, PipelineLines, TRUE, <<Doc(""), Doc("")>>)>>,
             GoodMonitoring, GoodDeploy)

CicdYamlError ==
    CicdWith(<<YamlFile(PipelineYaml, PipelineLines, FALSE, <<>>)>>, <<>>,
             <<PyFile(DeployPy, DeployLines, NoAst)>>)

CicdWrongOrder ==
    CicdWith(<<YamlFile(PipelineYaml, PipelineWrongOrder, TRUE, <<ScalarDoc>>)>>,
             GoodMonitoring, <<PyFile(DeployPy, DeployLines, DeployRedefinedTree)>>)

CicdReversed ==
    CicdWith(<<YamlFile(PipelineYaml, PipelineReversed, TRUE, <<ScalarDoc>>)>>,
             GoodMonitoring, GoodDeploy)

CicdSamples ==
    <<NoDirectory, CicdGood, CicdSkeleton, CicdEmptyDir, CicdUndecodablePipeline,
      CicdUndecodableMonitoring, CicdUndecodableDeploy, CicdTwoDocuments, CicdYamlError,
      CicdWrongOrder, CicdReversed>>

\* ---- debug/ ----
RcaLines ==
    Lines(<< <<"#", "Root", "Cause">>,
             <<"the", "MTU", "of", "1500", "made", "the", "packets", "fragment">>,
             <<"the", "VPN", "tunnel", "adds", "ipsec", "overhead">>,
             <<"Timeline", "deployed", "degraded", "resolved">> >>)

\* two of the MTU words, one of the VPN words, no timeline
RcaPartial == Lines(<< <<"the", "MTU", "was", "1500", "on", "the", "VPN">> >>)

RcaTemplate ==
    Lines(<< <<"#", "Root", "Cause">>,
             <<"<!--", "was", "it", "the", "MTU", "1500", "fragment", "VPN", "tunnel", "ipsec", "-->">>,
             <<"##", "Timeline", "deployed", "degraded", "resolved">>,
             <<"-">> >>)

\* a comment written inside the opening delimiter of another one
RcaNestedComment ==
    Lines(<< <<"#", "Root", "Cause">>,
             <<"<!<!--", "draft", "-->--", "was", "it", "the", "MTU", "1500", "fragment", "-->">>,
             <<"the", "VPN", "tunnel", "adds", "ipsec", "overhead">> >>)

RemediationLines ==
    Lines(<< <<"#!/bin/bash">>,
             <<"set", "-euo", "pipefail">>,
             <<"ip", "link", "set", "eth0", "mtu", "1400">>,
             <<"ping", "-c", "1", "10.0.0.1">>,
             <<"ip", "link", "show", "eth0">> >>)

\* two commands: fewer than the three lines the check asks for
RemediationShort ==
    Lines(<< <<"#!/bin/bash">>, <<"set", "-e">>, <<"set_mtu", "1400">> >>)

\* two commands under a shebang that set the MTU with error handling
RemediationTwoLines ==
    Lines(<< <<"#!/bin/bash">>, <<"set", "-e">>,
             <<"ip", "link", "set", "eth0", "mtu", "1400">> >>)

\* sets the MTU and nothing else
RemediationMtuOnly ==
    Lines(<< <<"ifconfig", "eth0", "mtu", "1400">>, <<"echo", "done">>, <<"exit", "0">> >>)

PostmortemLines ==
    Prose(<< <<"##", "Summary">>,
             <<"summary", "of", "the", "customer", "impact">>,
             <<"timeline", "and", "cause", "with", "the", "lessons">>,
             <<"Action", "Items", "for", "the", "network", "team">> >>)

ProductLines == Prose(<< <<"add", "an", "alert", "a", "dashboard", "and", "a", "synthetic", "probe">> >>)

DebugWith(rca, remediation, lint, postmortem, product) ==
    Sample({DebugDir},
           << TextFile(PostmortemMd, postmortem),
              TextFile(ProductMd, product),
              ShFile(RemediationSh, remediation, lint),
              TextFile(RcaMd, rca) >>)

DebugGood == DebugWith(RcaLines, RemediationLines, TRUE, PostmortemLines, ProductLines)

DebugLintFails == DebugWith(RcaLines, RemediationLines, FALSE, PostmortemLines, ProductLines)

DebugSkeleton == DebugWith(RcaTemplate, ScriptTemplate, TRUE, MdTemplate, MdTemplate)

DebugPartial == DebugWith(RcaPartial, RemediationMtuOnly, FALSE, MdTemplate, ProductLines)

DebugShortScript == DebugWith(RcaLines, RemediationShort, FALSE, PostmortemLines, MdTemplate)

DebugNestedComment ==
    DebugWith(RcaNestedComment, RemediationLines, TRUE, PostmortemLines, ProductLines)

DebugTwoLines ==
    DebugWith(RcaLines, RemediationTwoLines, TRUE, PostmortemLines, ProductLines)

DebugEmptyDir == Sample({DebugDir}, <<>>)

DebugUndecodableRca ==
    DebugWith(Lines(<< <<"MTU", BadByte>> >>), RemediationLines, TRUE, PostmortemLines,
              ProductLines)

DebugUndecodableProduct ==
    DebugWith(RcaLines, RemediationLines, TRUE, PostmortemLines, Lines(<< <<BadByte>> >>))

DebugSamples ==
    <<NoDirectory, DebugGood, DebugLintFails, DebugSkeleton, DebugPartial, DebugShortScript,
      DebugEmptyDir, DebugUndecodableRca, DebugUndecodableProduct, DebugNestedComment>>

(***************************************************************************)
(* Sample submissions and the worlds (submission, environment) explored.   *)
(***************************************************************************)
\* a submission directory made of one sample per module
Compose(tf, k8s, net, cicd, dbg) ==
    [root |-> TRUE,
     dirs |-> tf.dirs \cup k8s.dirs \cup net.dirs \cup cicd.dirs \cup dbg.dirs,
     files |-> tf.files \o k8s.files \o net.files \o cicd.files \o dbg.files]

\* the path given to evaluate is not a directory
MissingSubmission == [root |-> FALSE, dirs |-> {}, files |-> <<>>]

\* a directory that exists and has nothing in it
EmptySubmission == Compose(NoDirectory, NoDirectory, NoDirectory, NoDirectory, NoDirectory)

GoodSubmission == Compose(TfGood, K8sGood, NetGood, CicdGood, DebugGood)

SkeletonSubmission ==
    Compose(TfSkeleton, K8sSkeleton, NetSkeleton, CicdSkeleton, DebugSkeleton)

GoodSamples == <<TfGood, K8sGood, NetGood, CicdGood, DebugGood>>

SamplesOf == <<TfSamples, K8sSamples, NetSamples, CicdSamples, DebugSamples>>

\* the base with the sample of module k replaced
Replace(base, k, sample) ==
    LET m == [base EXCEPT ![k] = sample]
    IN  Compose(m[1], m[2], m[3], m[4], m[5])

\* each of the samples as module k of the base
Variants(base, k, samples) == {Replace(base, k, samples[i]) : i \in 1..Len(samples)}

\* each of the samples as module k, in a good submission and alone
GoodAndAlone(k, samples) ==
    Variants(GoodSamples, k, samples) \cup Variants([j \in 1..5 |-> NoDirectory], k, samples)

\* every sample of every module, in a good submission and alone
VariedSubmissions == UNION {GoodAndAlone(k, SamplesOf[k]) : k \in 1..5}

\* every choice of the modules that are written well, the others missing:
\* the totals 0, 15, 20, 25, ..., 100
MixedSubmissions ==
    {Compose(IF 1 \in S THEN TfGood ELSE NoDirectory,
             IF 2 \in S THEN K8sGood ELSE NoDirectory,
             IF 3 \in S THEN NetGood ELSE NoDirectory,
             IF 4 \in S THEN CicdGood ELSE NoDirectory,
             IF 5 \in S THEN DebugGood ELSE NoDirectory) : S \in SUBSET (1..5)}

\* a good submission but for a pipeline with its stages out of order and a
\* remediation script the linter warns about
DeductedSubmission == Compose(TfGood, K8sGood, NetGood, CicdWrongOrder, DebugLintFails)

\* a submission with a manifest on which kubernetes_validator raises, evaluated
\* without the keyword file
RaisingWithoutKeywords ==
    [sub |-> Replace(GoodSamples, 2, K8sScalarContainer),
     env |-> Env("runs", TRUE, "missing", KwFull)]

\* a good submission but for scripts and a site plan that are each one line
\* short of the threshold of their check
OneLineShortSubmission == Compose(TfGood, K8sGood, NetOneLineShort, CicdGood, DebugTwoLines)

\* a manifest on which kubernetes_validator raises, a pipeline with its stages
\* out of order and a remediation script the linter warns about
RaisingAndDeducted ==
    Compose(TfGood, K8sScalarContainer, NetGood, CicdWrongOrder, DebugLintFails)

\* the environments without a linter that runs
NoLinterEnvs == {Env("absent", TRUE, "ok", KwFull), Env("timeout", TRUE, "ok", KwFull)}

Worlds ==
    {[sub |-> x, env |-> DefaultEnv] :
        x \in VariedSubmissions \cup MixedSubmissions
                 \cup {MissingSubmission, DeductedSubmission, OneLineShortSubmission,
                       RaisingAndDeducted}}
    \cup {[sub |-> x, env |-> Envs[i]] :
             x \in {GoodSubmission, SkeletonSubmission, EmptySubmission},
             i \in 1..Len(Envs)}
    \cup {[sub |-> x, env |-> e] :
             x \in Variants([j \in 1..5 |-> NoDirectory], 3, NetSamples), e \in NoLinterEnvs}
    \cup {RaisingWithoutKeywords}

(***************************************************************************)
(* The evaluator as a state machine: one evaluate() call at a time on a    *)
(* fixed submission and environment.                                       *)
(***************************************************************************)
\* the module arguments tried: None, the five modules, a name that is no module
ModuleArgs == {NoModule, "bogus"} \cup Range(VALID_MODULES)

Init ==
    /\ \E w \in Worlds : sub = w.sub /\ env = w.env
    /\ pc = "idle"
    /\ module = NoModule
    /\ quick = FALSE
    /\ modules_to_run = <<>>
    /\ module_results = <<>>
    /\ invoked = <<>>
    /\ result = NoResult
    /\ reference = [q \in BOOLEAN |-> NoReference]

\* evaluate as it would be if a name that is no module fell back to all the
\* modules
EvaluateAllOnUnknown(m, q) ==
    /\ pc = "idle"
    /\ sub.root
    /\ pc' = "loop"
    /\ module' = m
    /\ quick' = q
    /\ modules_to_run' = IF m \in DOMAIN MODULE_VALIDATORS THEN <<m>> ELSE VALID_MODULES
    /\ module_results' = <<>>
    /\ invoked' = <<>>
    /\ result' = NoResult
    /\ UNCHANGED <<sub, env, reference>>

\* evaluate(submission_dir, module, quick), up to the loop
Evaluate(m, q) ==
    /\ pc = "idle"
    /\ sub.root
    /\ pc' = "loop"
    /\ module' = m
    /\ quick' = q
    /\ modules_to_run' = IF m \notin {NoModule, ""} THEN <<m>> ELSE VALID_MODULES
    /\ module_results' = <<>>
    /\ invoked' = <<>>
    /\ result' = NoResult
    /\ UNCHANGED <<sub, env, reference>>

\* evaluate on a path that is not a directory: sys.exit(1)
EvaluateMissingDir(m, q) ==
    /\ pc = "idle"
    /\ ~sub.root
    /\ pc' = "exit"
    /\ module' = m
    /\ quick' = q
    /\ UNCHANGED <<sub, env, modules_to_run, module_results, invoked, result, reference>>

\* the loop meets a name that is not in MODULE_VALIDATORS: continue
SkipUnknown ==
    /\ pc = "loop"
    /\ modules_to_run # <<>>
    /\ Head(modules_to_run) \notin DOMAIN MODULE_VALIDATORS
    /\ modules_to_run' = Tail(modules_to_run)
    /\ UNCHANGED <<sub, env, pc, module, quick, module_results, invoked, result, reference>>

\* one pass of the loop as it would be with a single list of checks shared by
\* the modules: each module is stored with the checks collected before it
StoreShared(mod, runs) ==
    /\ module_results' =
           (mod :> (Flatten([i \in 1..Len(invoked) |->
                                IF invoked[i].outcome.raised THEN <<>>
                                ELSE invoked[i].outcome.checks]) \o Collected(runs)))
               @@ module_results
    /\ invoked' = invoked \o runs

\* what one pass of the loop leaves: the module's checks stored under its
\* name, and the validator calls it made
Store(mod, runs) ==
    /\ module_results' = (mod :> Collected(runs)) @@ module_results
    /\ invoked' = invoked \o runs

\* module_results[mod] = run_module(mod, submission_dir, quick=quick)
RunModule ==
    /\ pc = "loop"
    /\ modules_to_run # <<>>
    /\ Head(modules_to_run) \in DOMAIN MODULE_VALIDATORS
    /\ Store(Head(modules_to_run),
             RunValidators(ValidatorsOf(Head(modules_to_run)), sub, env, quick))
    /\ modules_to_run' = Tail(modules_to_run)
    /\ UNCHANGED <<sub, env, pc, module, quick, result, reference>>

\* after the loop: the modules not run get an empty list, and evaluate
\* returns compute_total_score(module_results)
Return ==
    /\ pc = "loop"
    /\ modules_to_run = <<>>
    /\ module_results' = [mod \in Range(VALID_MODULES) |-> ResultsGet(module_results, mod)]
    /\ result' = compute_total_score(module_results')
    /\ reference' = IF module = NoModule
                    THEN [reference EXCEPT ![quick] = [valid |-> TRUE, result |-> result']]
                    ELSE reference
    /\ pc' = "idle"
    /\ UNCHANGED <<sub, env, module, quick, modules_to_run, invoked>>

Next ==
    \/ \E m \in ModuleArgs, q \in BOOLEAN : Evaluate(m, q)
    \/ \E m \in ModuleArgs, q \in BOOLEAN : EvaluateMissingDir(m, q)
    \/ SkipUnknown
    \/ RunModule
    \/ Return

Spec == Init /\ [][Next]_vars

(***************************************************************************)
(* Properties.                                                             *)
(***************************************************************************)
\* evaluate has returned its result
Done == pc = "idle" /\ result # NoResult

ModuleNames == {"terraform", "k8s", "network", "cicd", "debug"}

\* the validators evaluate has to call for the module argument, in order
ExpectedCalls ==
    IF module = NoModule
    THEN <<"terraform_validator", "kubernetes_validator", "shell_validator",
           "pipeline_validator", "python_validator", "document_validator">>
    ELSE IF module = "terraform" THEN <<"terraform_validator">>
    ELSE IF module = "k8s" THEN <<"kubernetes_validator">>
    ELSE IF module = "network" THEN <<"shell_validator">>
    ELSE IF module = "cicd" THEN <<"pipeline_validator", "python_validator">>
    ELSE IF module = "debug" THEN <<"document_validator">>
    ELSE <<>>

\* the module a validator belongs to
ModuleOf(validator) ==
    CASE validator = "terraform_validator" -> "terraform"
      [] validator = "kubernetes_validator" -> "k8s"
      [] validator = "shell_validator" -> "network"
      [] validator \in {"pipeline_validator", "python_validator"} -> "cicd"
      [] validator = "document_validator" -> "debug"

\* C1: in every result evaluate returns, whatever the submission, the module
\* argument and the mode, 0 <= total_score <= max_score and max_score is
\* 25 + 25 + 20 + 15 + 15 = 100.
ScoreWithinBounds ==
    Done => /\ 0 <= result.total_score
            /\ result.total_score <= result.max_score
            /\ result.max_score = 25 + 25 + 20 + 15 + 15

\* a full run of all modules that reaches the maximum
ScoreWithinBoundsWitness ==
    Done /\ module = NoModule /\ ~quick /\ result.total_score = 100 /\ result.max_score = 100

\* C2: no call of a validator raises: every call returns a list of checks.
NoValidatorRaises == \A i \in 1..Len(invoked) : ~invoked[i].outcome.raised

\* C3: when a validator raises, the module's checks hold exactly one error
\* check for it, named after the validator, with no points, not passed and
\* the exception text as details; every validator of the requested modules
\* is still called, in order, and evaluate returns a result with all modules.
RaiseIsolated ==
    Done =>
        /\ [i \in 1..Len(invoked) |-> invoked[i].validator] = ExpectedCalls
        /\ DOMAIN result.modules = ModuleNames
        /\ \A i \in 1..Len(invoked) :
               invoked[i].outcome.raised =>
                   LET checks == result.modules[ModuleOf(invoked[i].validator)].checks
                       errors == {k \in 1..Len(checks) :
                                     checks[k].name = "Validator error (evaluation.validators."
                                                          \o invoked[i].validator \o ")"}
                   IN  /\ Cardinality(errors) = 1
                       /\ \A k \in errors :
                              /\ checks[k].points_awarded = 0
                              /\ ~checks[k].passed
                              /\ checks[k].details = invoked[i].outcome.exc

\* a run of all modules in which the first validator of a module raised and
\* the second one returned its checks
RaiseIsolatedWitness ==
    /\ Done /\ module = NoModule
    /\ Len(invoked) = 6
    /\ invoked[4].outcome.raised
    /\ ~invoked[5].outcome.raised /\ invoked[5].outcome.checks # <<>>
    /\ ~invoked[6].outcome.raised

\* C4: a run of one module gives that module the checks the run of all
\* modules gave it on the same submission in the same mode.
SingleMatchesAll ==
    (Done /\ module \in ModuleNames /\ reference[quick].valid) =>
        result.modules[module].checks = reference[quick].result.modules[module].checks

\* a module run alone after the run of all modules, with checks to compare
SingleMatchesAllWitness ==
    /\ Done /\ module = "cicd" /\ reference[quick].valid
    /\ Len(result.modules[module].checks) > 1
    /\ result.modules["terraform"].checks = <<>>
    /\ reference[quick].result.modules["terraform"].checks # <<>>

\* C5: the result has an entry for each of the five modules; a module that
\* was not requested has no checks, score 0 and its configured maximum, so the
\* total is the requested module's score and max_score still counts all five.
AllModulesPresent ==
    Done =>
        /\ DOMAIN result.modules = ModuleNames
        /\ \A m \in ModuleNames :
               result.modules[m].max =
                   [terraform |-> 25, k8s |-> 25, network |-> 20, cicd |-> 15, debug |-> 15][m]
        /\ module # NoModule =>
               /\ \A m \in ModuleNames \ {module} :
                      result.modules[m].checks = <<>> /\ result.modules[m].score = 0
               /\ result.total_score =
                      IF module \in ModuleNames THEN result.modules[module].score ELSE 0
               /\ result.max_score = 100

\* a run of one module that scored, the others left empty
AllModulesPresentWitness ==
    /\ Done /\ module = "k8s"
    /\ result.modules["k8s"].score > 0
    /\ result.modules["terraform"].checks = <<>>
    /\ result.total_score = result.modules["k8s"].score

\* C6: the band is decided by the total alone: 80 and more is "Strong Hire",
\* 65 to 79 "Hire", 50 to 64 "Borderline", less than 50 "No Hire".
BandByThresholds ==
    Done =>
        result.band = IF result.total_score >= 80 THEN "Strong Hire"
                      ELSE IF result.total_score >= 65 THEN "Hire"
                      ELSE IF result.total_score >= 50 THEN "Borderline"
                      ELSE "No Hire"

\* a total on a threshold
BandByThresholdsWitness == Done /\ result.total_score = 65 /\ result.band = "Hire"

\* C7: on a submission directory without any of the module directories, a
\* full run of all modules gives every module checks, all of them failed with
\* no points (the directory checks among them), total 0 of 100, "No Hire".
EmptyDirAllFail ==
    (Done /\ sub.root /\ sub.dirs = {} /\ module = NoModule /\ ~quick) =>
        /\ \A m \in ModuleNames :
               /\ result.modules[m].checks # <<>>
               /\ \A k \in 1..Len(result.modules[m].checks) :
                      /\ ~result.modules[m].checks[k].passed
                      /\ result.modules[m].checks[k].points_awarded = 0
        /\ result.modules["terraform"].checks[1].name = "Terraform directory exists"
        /\ result.modules["k8s"].checks[1].name = "K8s directory exists"
        /\ result.total_score = 0
        /\ result.max_score = 100
        /\ result.band = "No Hire"

\* the full run on the empty directory, where no linter is installed
EmptyDirAllFailWitness ==
    /\ Done /\ sub.root /\ sub.dirs = {} /\ module = NoModule /\ ~quick
    /\ env.shellcheck = "absent"
    /\ Len(result.modules["network"].checks) = 8

\* the check c is in the list, points and verdict included
HasCheck(checks, c) ==
    \E k \in 1..Len(checks) :
        /\ checks[k].name = c.name
        /\ checks[k].max_points = c.max_points
        /\ checks[k].points_awarded = c.points_awarded
        /\ checks[k].passed = c.passed

\* C8: every check a validator returns in quick mode is among the checks it
\* returns in full mode on the same submission, with the same name, maximum,
\* points and verdict.
QuickSubsetOfFull ==
    \A i \in 1..Len(invoked) :
        (quick /\ ~invoked[i].outcome.raised
               /\ ~Validate(invoked[i].validator, sub, env, FALSE).raised) =>
            \A k \in 1..Len(invoked[i].outcome.checks) :
                HasCheck(Validate(invoked[i].validator, sub, env, FALSE).checks,
                         invoked[i].outcome.checks[k])

\* C9: in quick mode no check depends on keyword matches: the checks a
\* validator returns are the ones it returns without any keyword configured.
QuickIgnoresKeywords ==
    \A i \in 1..Len(invoked) :
        (quick /\ ~invoked[i].outcome.raised) =>
            invoked[i].outcome =
                Validate(invoked[i].validator, sub, [env EXCEPT !.kwfile = "missing"], TRUE)

\* the first check of the shell validator, when the call returned
LinterCheck(run) == run.outcome.checks[1]

\* C10 as stated: with the linter absent, the check "shellcheck passes on .sh
\* files" passes whatever the scripts under network/ and edge/ hold.
LinterAbsentAlwaysPasses ==
    \A i \in 1..Len(invoked) :
        (env.shellcheck = "absent" /\ invoked[i].validator = "shell_validator"
             /\ ~invoked[i].outcome.raised) =>
            /\ LinterCheck(invoked[i]).name = "shellcheck passes on .sh files"
            /\ LinterCheck(invoked[i]).passed

\* a .sh file of network/ or edge/ with five lines that are neither blank nor
\* comments
HasScriptWithContent ==
    \E j \in 1..Len(sub.files) :
        /\ sub.files[j].path[1] \in {"network", "edge"}
        /\ sub.files[j].path[3] = ".sh"
        /\ Cardinality({n \in 1..Len(sub.files[j].lines) :
               /\ sub.files[j].lines[n] # <<>>
               /\ "#" \notin PrefixesOf(sub.files[j].lines[n][1])}) >= 5

\* C10, amended: with the linter absent, the check "shellcheck passes on .sh
\* files" passes exactly when some .sh file under network/ or edge/ has five
\* lines that are neither blank nor comments; the linter never fails it.
LinterAbsentPassesOnContent ==
    \A i \in 1..Len(invoked) :
        (env.shellcheck = "absent" /\ invoked[i].validator = "shell_validator"
             /\ ~invoked[i].outcome.raised) =>
            /\ LinterCheck(invoked[i]).name = "shellcheck passes on .sh files"
            /\ LinterCheck(invoked[i]).passed = HasScriptWithContent

\* the linter is absent and the check passes on a script the linter would fail
LinterAbsentPassesOnContentWitness ==
    /\ env.shellcheck = "absent"
    /\ \E i \in 1..Len(invoked) :
           /\ invoked[i].validator = "shell_validator"
           /\ ~invoked[i].outcome.raised
           /\ LinterCheck(invoked[i]).passed
    /\ \E j \in 1..Len(sub.files) : sub.files[j].path[3] = ".sh" /\ ~sub.files[j].lint

\* a file that holds only comments and blank lines ("#", and "//" in a .tf file)
CommentOnly(f) ==
    /\ ~Undecodable(f.lines)
    /\ \E n \in 1..Len(f.lines) : f.lines[n] # <<>>
    /\ \A n \in 1..Len(f.lines) :
           \/ f.lines[n] = <<>>
           \/ StartsWith(f.lines[n], "#")
           \/ (f.path[3] = ".tf" /\ StartsWith(f.lines[n], "//"))

\* the submission without its j-th file
Without(s, j) ==
    [s EXCEPT !.files = SubSeq(s.files, 1, j - 1) \o SubSeq(s.files, j + 1, Len(s.files))]

\* what a returned call awards, check by check
Awards(outcome) ==
    [k \in 1..Len(outcome.checks) |->
         <<outcome.checks[k].points_awarded, outcome.checks[k].passed>>]

\* C11: a file that holds only comments scores as the same submission without
\* the file: every validator call that returns awards, check by check, the
\* points and the verdict it awards when the file is absent.
CommentOnlyScoresAsAbsent ==
    \A i \in 1..Len(invoked) : \A j \in 1..Len(sub.files) :
        (~invoked[i].outcome.raised /\ CommentOnly(sub.files[j])) =>
            LET absent == Validate(invoked[i].validator, Without(sub, j), env, quick)
            IN  ~absent.raised /\ Awards(absent) = Awards(invoked[i].outcome)

\* a script that parses and whose functions all have a body of docstrings and
\* pass statements only
AllStubs(f) ==
    /\ f.ast.error = ""
    /\ f.ast.funcs # <<>>
    /\ \A i \in 1..Len(f.ast.funcs) : \A k \in 1..Len(f.ast.funcs[i].body) :
           ~IsRealStmt(f.ast.funcs[i].body[k])

\* the checks of a returned call that have the name
Named(outcome, name) ==
    {outcome.checks[k] : k \in {n \in 1..Len(outcome.checks) : outcome.checks[n].name = name}}

\* C12: in full mode a script whose functions are all stubs is awarded zero
\* points on the "is implemented" checks: the deploy.py check of
\* python_validator and the camera_discovery.py check of shell_validator.
StubsScoreZero ==
    \A i \in 1..Len(invoked) :
        (~quick /\ ~invoked[i].outcome.raised) =>
            /\ (invoked[i].validator = "python_validator" /\ Exists(sub, DeployPy)
                    /\ AllStubs(FileAt(sub, DeployPy))) =>
                   \A c \in Named(invoked[i].outcome,
                                  "deploy.py: valid Python, argparse, rollback, healthcheck") :
                       c.points_awarded = 0
            /\ (invoked[i].validator = "shell_validator" /\ Exists(sub, CameraPy)
                    /\ AllStubs(FileAt(sub, CameraPy))) =>
                   \A c \in Named(invoked[i].outcome,
                                  "camera_discovery.py: XML parsing, JSON output, timeout") :
                       c.points_awarded = 0

\* C13: every check of a run, returned by a validator in either mode or made
\* by run_module for a validator that raised, has an integer points_awarded
\* with 0 <= points_awarded <= max_points.
PointsWithinMax ==
    /\ \A i \in 1..Len(invoked) :
           ~invoked[i].outcome.raised =>
               \A k \in 1..Len(invoked[i].outcome.checks) :
                   /\ invoked[i].outcome.checks[k].points_awarded \in Int
                   /\ invoked[i].outcome.checks[k].points_awarded >= 0
                   /\ invoked[i].outcome.checks[k].points_awarded
                          <= invoked[i].outcome.checks[k].max_points
    /\ \A m \in DOMAIN module_results : \A k \in 1..Len(module_results[m]) :
           /\ module_results[m][k].points_awarded \in Int
           /\ module_results[m][k].points_awarded >= 0
           /\ module_results[m][k].points_awarded <= module_results[m][k].max_points

\* a full run in which the linter deduction and the ordering deduction were
\* both applied
PointsWithinMaxWitness ==
    /\ Done /\ module = NoModule /\ ~quick
    /\ \E c \in Range(result.modules["debug"].checks) :
           /\ c.name = "remediation.sh: sets MTU, passes shellcheck"
           /\ c.details = "Found: sets MTU, shebang + error handling, verification step, shellcheck warnings"
           /\ c.points_awarded = 2
    /\ \E c \in Range(result.modules["cicd"].checks) :
           /\ c.name = "Build + test + deploy stages in order"
           /\ c.details = "build=yes, test=yes, deploy=yes, order=incorrect"
           /\ c.points_awarded = 2

\* the submissions a call's checks are compared with: every sample of every
\* module, alone in the directory
AloneSubmissions == UNION {Variants([j \in 1..5 |-> NoDirectory], k, SamplesOf[k]) : k \in 1..5}

\* C14: max_points is fixed per check: a check a validator returns has the
\* max_points of every check of the same name the validator returns on another
\* submission, in quick or in full mode.
MaxPointsFixed ==
    \A i \in 1..Len(invoked) :
        ~invoked[i].outcome.raised =>
            \A x \in AloneSubmissions : \A q \in BOOLEAN :
                LET other == Validate(invoked[i].validator, x, env, q)
                IN  ~other.raised =>
                        \A a \in Range(invoked[i].outcome.checks) :
                            \A b \in Range(other.checks) :
                                a.name = b.name => a.max_points = b.max_points

\* the configured maximum of a module
ConfiguredMax(m) ==
    CASE m = "terraform" -> 25
      [] m = "k8s" -> 25
      [] m = "network" -> 20
      [] m = "cicd" -> 15
      [] m = "debug" -> 15

\* the points of a list of checks, added up one by one
RECURSIVE PointsOf(_)
PointsOf(checks) ==
    IF checks = <<>> THEN 0 ELSE Head(checks).points_awarded + PointsOf(Tail(checks))

\* C15: in a result, a module's score is the plain sum of the points_awarded
\* of its checks, its max is the module's configured maximum whatever its
\* checks are, and total_score is the sum of the five module scores.
ScoreIsPlainSum ==
    Done =>
        /\ \A m \in ModuleNames :
               /\ result.modules[m].score = PointsOf(result.modules[m].checks)
               /\ result.modules[m].max = ConfiguredMax(m)
        /\ result.total_score =
               result.modules["terraform"].score + result.modules["k8s"].score
                   + result.modules["network"].score + result.modules["cicd"].score
                   + result.modules["debug"].score

\* a full result with a check that awards part of its points without passing,
\* a check that passes with part of its points, and a module that scores less
\* than its maximum
ScoreIsPlainSumWitness ==
    /\ Done /\ module = NoModule /\ ~quick
    /\ \E c \in Range(result.modules["cicd"].checks) :
           c.points_awarded > 0 /\ ~c.passed
    /\ \E c \in Range(result.modules["debug"].checks) :
           c.points_awarded < c.max_points /\ c.passed
    /\ result.modules["cicd"].score < result.modules["cicd"].max
    /\ result.total_score > result.modules["cicd"].score

\* an all-modules run has visited every module and is about to return, and an
\* all-modules run of the same mode has returned before it
AboutToReturnAgain ==
    /\ pc = "loop" /\ modules_to_run = <<>>
    /\ module = NoModule
    /\ reference[quick].valid

UnknownModuleHarmless ==
    (Done /\ module \notin ModuleNames \cup {NoModule}) =>
        /\ invoked = <<>>
        /\ DOMAIN result.modules = ModuleNames
        /\ \A m \in ModuleNames :
               result.modules[m].checks = <<>> /\ result.modules[m].score = 0
        /\ result.total_score = 0
        /\ result.max_score = 100
        /\ result.band = "No Hire"

\* evaluate has returned from a call with the name "bogus" on a submission
\* that scores when it is evaluated
UnknownModuleHarmlessWitness ==
    /\ Done /\ module = "bogus"
    /\ reference[quick].valid /\ reference[quick].result.total_score > 0

\* the pattern lists (group, list) a keyword check reads
ListsOf(name) ==
    CASE name = "RCA: identifies MTU as root cause" -> {<<"debug_rca_mtu", "keywords">>}
      [] name = "RCA: identifies VPN tunnel + packet fragmentation" ->
             {<<"debug_rca_vpn", "keywords">>}
      [] name = "RCA: correct timeline reconstruction" -> {<<"debug_timeline", "keywords">>}
      [] name = "postmortem.md: all sections, action items" ->
             {<<"postmortem_sections", "keywords">>}
      [] name = "product_recommendations.md: monitoring + automated detection" ->
             {<<"monitoring_recommendations", "keywords">>}
      [] name = "Incident 1: root cause + remediation" ->
             {<<"incident_1", "root_cause">>, <<"incident_1", "remediation">>}
      [] name = "Incident 2: root cause + remediation" ->
             {<<"incident_2", "root_cause">>, <<"incident_2", "remediation">>}
      [] name = "Incident 3: root cause + remediation" ->
             {<<"incident_3", "root_cause">>, <<"incident_3", "remediation">>}
      [] name = "Prevention measures in incident responses" ->
             {<<"incident_1", "prevention">>, <<"incident_2", "prevention">>,
              <<"incident_3", "prevention">>}
      [] name = "site_plan.md: VLAN design, IP scheme, isolation" ->
             {<<"site_plan_vlan", "keywords">>, <<"site_plan_ip", "keywords">>}
      [] name = "golden_image.md: creation process, patching strategy" ->
             {<<"golden_image", "keywords">>}
      [] name = "monitoring_setup.md: metrics, SLOs, alerting, escalation" ->
             {<<"monitoring_setup_metrics", "keywords">>, <<"monitoring_setup_slo", "keywords">>,
              <<"monitoring_setup_alerting", "keywords">>,
              <<"monitoring_setup_escalation", "keywords">>}
      [] OTHER -> {}

\* the keyword file is missing or is not JSON, or it has not the group or not
\* the list
ListMissing(l) ==
    \/ env.kwfile # "ok"
    \/ l[1] \notin DOMAIN env.keywords
    \/ l[2] \notin DOMAIN env.keywords[l[1]]

\* a keyword check all of whose pattern lists are missing
WithoutPatterns(c) == ListsOf(c.name) # {} /\ \A l \in ListsOf(c.name) : ListMissing(l)

\* the keyword file does not make a call raise: a call that raises without it
\* raises with the full file too
MissingKeywordsRaiseNothing ==
    \A i \in 1..Len(invoked) :
        (env.kwfile # "ok" /\ invoked[i].outcome.raised) =>
            Validate(invoked[i].validator, sub,
                     [env EXCEPT !.kwfile = "ok", !.keywords = KwFull], quick).raised

\* C18 as stated: when the keyword file is missing or is not JSON, or a group
\* or a list is missing from it, every keyword check whose lists are missing
\* awards 0 points with passed = false, and the missing configuration makes
\* no validator raise.
MissingKeywordsScoreZero ==
    /\ MissingKeywordsRaiseNothing
    /\ \A i \in 1..Len(invoked) :
           ~invoked[i].outcome.raised =>
               \A c \in Range(invoked[i].outcome.checks) :
                   WithoutPatterns(c) => c.points_awarded = 0 /\ ~c.passed

\* C18, amended: the same, but for the postmortem check, which counts zero
\* sections and still awards its point for action items, found without the
\* keyword file.
MissingKeywordsCountZero ==
    /\ MissingKeywordsRaiseNothing
    /\ \A i \in 1..Len(invoked) :
           ~invoked[i].outcome.raised =>
               \A c \in Range(invoked[i].outcome.checks) :
                   WithoutPatterns(c) =>
                       IF c.name = "postmortem.md: all sections, action items"
                       THEN \/ /\ c.details = "Sections matched: 0, action items: no"
                               /\ c.points_awarded = 0 /\ ~c.passed
                            \/ /\ c.details = "Sections matched: 0, action items: yes"
                               /\ c.points_awarded = 1 /\ c.passed
                       ELSE c.points_awarded = 0 /\ ~c.passed

\* a full run without the keyword file of a submission that scores its keyword
\* checks with the file: the RCA check counts nothing, the postmortem check
\* awards the point for action items, and the validator that raises is one
\* that raises with the file too
MissingKeywordsCountZeroWitness ==
    /\ Done /\ module = NoModule /\ ~quick
    /\ env.kwfile = "missing"
    /\ \E c \in Range(result.modules["debug"].checks) :
           /\ c.name = "RCA: identifies MTU as root cause"
           /\ c.details = "MTU-related keywords matched: 0"
           /\ c.points_awarded = 0
    /\ \E c \in Range(result.modules["debug"].checks) :
           /\ c.name = "postmortem.md: all sections, action items"
           /\ c.points_awarded = 1
    /\ \E c \in Range(result.modules["cicd"].checks) :
           /\ c.name = "monitoring_setup.md: metrics, SLOs, alerting, escalation"
           /\ c.points_awarded = 0
    /\ \E i \in 1..Len(invoked) : invoked[i].outcome.raised

(***************************************************************************)
(* C19: the normalizers applied twice.                                     *)
(***************************************************************************)
\* the texts the normalizers are given: the content of every file of the
\* submission
Texts == {sub.files[i].lines : i \in 1..Len(sub.files)}

SameTwice(once, twice) == once = twice

\* C19: for every input text, each normalizer applied twice gives the same
\* text as applied once: the prose normalizer _strip_md_template (in its three
\* copies) and the comment normalizers _strip_shell_comments,
\* _strip_tf_comments and _strip_yaml_comments.
NormalizersIdempotent ==
    \A text \in Texts :
        /\ SameTwice(_strip_md_template(text),
                     _strip_md_template(_strip_md_template(text)))
        /\ SameTwice(shell_strip_md_template(text),
                     shell_strip_md_template(shell_strip_md_template(text)))
        /\ SameTwice(pipeline_strip_md_template(text),
                     pipeline_strip_md_template(pipeline_strip_md_template(text)))
        /\ SameTwice(_strip_shell_comments(text),
                     _strip_shell_comments(_strip_shell_comments(text)))
        /\ SameTwice(_strip_tf_comments(text),
                     _strip_tf_comments(_strip_tf_comments(text)))
        /\ SameTwice(_strip_yaml_comments(text),
                     _strip_yaml_comments(_strip_yaml_comments(text)))

(***************************************************************************)
(* C20: the resources check on one workload with one container.            *)
(***************************************************************************)
\* the documents validate() collects from the manifests of a submission
ParsedDocs(s) == AllDocs(LoadAll(listdir(s, K8sDir, {".yaml", ".yml"})))

\* exactly one document, a workload with a pod template and one container,
\* whose resources hold requests
OneWorkload(docs) ==
    /\ Len(docs) = 1
    /\ docs[1].type = "dict" /\ docs[1].kind \in {"Deployment", "StatefulSet", "DaemonSet"}
    /\ Len(_find_container_spec(docs[1])) = 1
    /\ _find_container_spec(docs[1])[1].type = "dict"
    /\ _find_container_spec(docs[1])[1].resources = "dict"
    /\ _find_container_spec(docs[1])[1].requests

\* the submission with `limits` removed from every container of its manifests
NoLimitsDoc(d) ==
    [d EXCEPT !.tcontainers = [k \in 1..Len(d.tcontainers) |->
                                   [d.tcontainers[k] EXCEPT !.limits = FALSE]],
              !.bcontainers = [k \in 1..Len(d.bcontainers) |->
                                   [d.bcontainers[k] EXCEPT !.limits = FALSE]]]

LimitsRemoved(s) ==
    [s EXCEPT !.files =
        [i \in 1..Len(s.files) |->
             [s.files[i] EXCEPT !.yaml.docs =
                 [k \in 1..Len(s.files[i].yaml.docs) |-> NoLimitsDoc(s.files[i].yaml.docs[k])]]]]

\* the check "Resource requests and limits" of a returned call is there once,
\* with all of its points and passed, or with none and failed
ResourcesCheckIs(outcome, full) ==
    /\ Cardinality(Named(outcome, "Resource requests and limits")) = 1
    /\ \A c \in Named(outcome, "Resource requests and limits") :
           IF full THEN c.max_points = 1 /\ c.points_awarded = c.max_points /\ c.passed
           ELSE c.points_awarded = 0 /\ ~c.passed

ResourcesRemoved_check(outcome) == ~outcome.raised => ResourcesCheckIs(outcome, FALSE)

\* C20: in full mode, when the parsed documents are exactly one workload whose
\* one container has requests and limits, the check "Resource requests and
\* limits" of the returned call awards its max_points and passes; with limits
\* removed or empty on that container the check awards 0 and fails.
ResourcesOfOneWorkload ==
    \A i \in 1..Len(invoked) :
        (/\ invoked[i].validator = "kubernetes_validator"
         /\ ~quick
         /\ ~invoked[i].outcome.raised
         /\ OneWorkload(ParsedDocs(sub))) =>
            IF _find_container_spec(ParsedDocs(sub)[1])[1].limits
            THEN /\ ResourcesCheckIs(invoked[i].outcome, TRUE)
                 /\ ResourcesRemoved_check(Validate("kubernetes_validator",
                                                    LimitsRemoved(sub), env, quick))
            ELSE ResourcesCheckIs(invoked[i].outcome, FALSE)

\* a full run on one Deployment whose container has requests and limits: the
\* check passed with its point, and fails on the same manifest without limits
ResourcesOfOneWorkloadWitness ==
    /\ Done /\ ~quick
    /\ OneWorkload(ParsedDocs(sub))
    /\ _find_container_spec(ParsedDocs(sub)[1])[1].limits
    /\ \E i \in 1..Len(invoked) :
           /\ invoked[i].validator = "kubernetes_validator"
           /\ ~invoked[i].outcome.raised
           /\ \E c \in Named(invoked[i].outcome, "Resource requests and limits") :
                  c.points_awarded = 1 /\ c.passed
    /\ \E c \in Named(Validate("kubernetes_validator", LimitsRemoved(sub), env, quick),
                      "Resource requests and limits") :
           c.points_awarded = 0 /\ ~c.passed

(***************************************************************************)
(* C21: the order of the stages of the pipeline.                           *)
(***************************************************************************)
\* the text the stage check searches
StageText == lower_text(_strip_yaml_comments(_read_file(sub, PipelineYaml)))

StagesAre(outcome, points, passed) ==
    /\ Cardinality(Named(outcome, "Build + test + deploy stages in order")) = 1
    /\ \A c \in Named(outcome, "Build + test + deploy stages in order") :
           c.points_awarded = points /\ c.passed = passed

StagesInOrder(build_pos, test_pos, deploy_pos) == build_pos < test_pos /\ test_pos < deploy_pos

\* C21: when build, test and deploy all occur in the comment-stripped,
\* lower-cased pipeline text, the stage check awards 3 points and passes if the
\* first build is before the first test and the first test before the first
\* deploy; otherwise it awards 2 points and fails, also when both orderings
\* are violated; the points of the check are never below zero.
StageOrdering ==
    \A i \in 1..Len(invoked) :
        (/\ invoked[i].validator = "pipeline_validator"
         /\ ~quick
         /\ ~invoked[i].outcome.raised) =>
            /\ \A c \in Named(invoked[i].outcome, "Build + test + deploy stages in order") :
                   c.points_awarded >= 0
            /\ (InText("build", StageText) /\ InText("test", StageText)
                    /\ InText("deploy", StageText)) =>
                   IF StagesInOrder(Find("build", StageText), Find("test", StageText),
                                    Find("deploy", StageText))
                   THEN StagesAre(invoked[i].outcome, 3, TRUE)
                   ELSE StagesAre(invoked[i].outcome, 2, FALSE)

\* a full run on a pipeline with deploy before test and test before build: both
\* orderings are violated and one point is taken off
StageOrderingWitness ==
    /\ Done /\ ~quick
    /\ InText("build", StageText) /\ InText("test", StageText) /\ InText("deploy", StageText)
    /\ Find("deploy", StageText) < Find("test", StageText)
    /\ Find("test", StageText) < Find("build", StageText)
    /\ \E i \in 1..Len(invoked) :
           /\ invoked[i].validator = "pipeline_validator"
           /\ ~invoked[i].outcome.raised
           /\ StagesAre(invoked[i].outcome, 2, FALSE)

(***************************************************************************)
(* C22: the three incident responses.                                      *)
(***************************************************************************)
\* the submission without the responses to the scenarios other than n
OthersRemoved(s, n) ==
    LET Keep(f) == \A m \in (1..3) \ {n} : f.path # Scenario(m)
    IN  [s EXCEPT !.files = SelectSeq(s.files, Keep)]

\* the points of a response: the root-cause tier and the remediation tier
TierPoints(rc, rem) ==
    Min((IF rc >= 2 THEN 2 ELSE IF rc = 1 THEN 1 ELSE 0) + Min(rem, 2), 4)

\* a check of scenario n is what the text and the two keyword lists make it;
\* the length is that of the text without the blanks around it
IncidentAsScored(c, text, rc, rem) ==
    IF text = EmptyText \/ StrippedLen(text) < 100
    THEN c.points_awarded = 0 /\ ~c.passed
    ELSE /\ c.points_awarded = TierPoints(rc, rem)
         /\ (c.points_awarded = c.max_points) = (rc >= 2 /\ rem >= 2)

IncidentAlone_check(checks, alone, name) == Named(alone, name) = checks

\* C22: each incident scenario is scored independently of the other two: a
\* response shorter than 100 characters gets 0 points and fails; otherwise
\* its points are 2 for two or more root-cause matches, 1 for exactly one,
\* plus one per remediation match up to 2, capped at 4, so that full marks
\* need two root-cause and two remediation matches; the check is the one the
\* validator returns when the other two responses are taken away.
IncidentsIndependent ==
    \A i \in 1..Len(invoked) :
        (/\ invoked[i].validator = "kubernetes_validator"
         /\ ~quick
         /\ ~invoked[i].outcome.raised
         /\ isdir(sub, K8sDir)) =>
            \A n \in 1..3 :
                /\ Cardinality(Named(invoked[i].outcome, IncidentName(n))) = 1
                /\ \A c \in Named(invoked[i].outcome, IncidentName(n)) :
                       IncidentAsScored(c, lower_text(_read_file(sub, Scenario(n))),
                           CountMatches(IncidentKws(load_keywords(env), n, "root_cause"),
                                        lower_text(_read_file(sub, Scenario(n)))),
                           CountMatches(IncidentKws(load_keywords(env), n, "remediation"),
                                        lower_text(_read_file(sub, Scenario(n)))))
                /\ IncidentAlone_check(Named(invoked[i].outcome, IncidentName(n)),
                       Validate("kubernetes_validator", OthersRemoved(sub, n), env, quick),
                       IncidentName(n))

\* a full run on three responses with different matches: two causes and one
\* remedy (3 points, passed), one cause and two remedies (3 points, failed),
\* no cause and two remedies (2 points, failed)
IncidentsIndependentWitness ==
    /\ Done /\ ~quick
    /\ \E i \in 1..Len(invoked) :
           /\ invoked[i].validator = "kubernetes_validator"
           /\ ~invoked[i].outcome.raised
           /\ \E c \in Named(invoked[i].outcome, IncidentName(1)) :
                  /\ c.details = "root_cause_keywords=2, remediation_keywords=1"
                  /\ c.points_awarded = 3 /\ c.passed
           /\ \E c \in Named(invoked[i].outcome, IncidentName(2)) :
                  /\ c.details = "root_cause_keywords=1, remediation_keywords=2"
                  /\ c.points_awarded = 3 /\ ~c.passed
           /\ \E c \in Named(invoked[i].outcome, IncidentName(3)) :
                  /\ c.details = "root_cause_keywords=0, remediation_keywords=2"
                  /\ c.points_awarded = 2 /\ ~c.passed

(***************************************************************************)
(* C23: the linter absent, timing out, passing and failing.                *)
(***************************************************************************)
\* the submission with every script passing the linter
LintClean(s) == [s EXCEPT !.files = [j \in 1..Len(s.files) |-> [s.files[j] EXCEPT !.lint = TRUE]]]

LinterIs(e, state) == [e EXCEPT !.shellcheck = state]

\* a check with credit taken off by the linter: the shell check failed, or the
\* remediation check one point lower
LintDeducted(c, clean) ==
    /\ c.name = clean.name /\ c.max_points = clean.max_points
    /\ \/ /\ c.name = "shellcheck passes on .sh files"
          /\ clean.passed /\ ~c.passed /\ c.points_awarded = 0
       \/ /\ c.name = "remediation.sh: sets MTU, passes shellcheck"
          /\ c.points_awarded = clean.points_awarded - 1 /\ c.points_awarded >= 0

\* the outcome is the clean one but for the checks the linter took credit off,
\* which it can do only when it runs
OnlyLintDeducted(outcome, clean, runs) ==
    /\ outcome.raised = clean.raised
    /\ outcome.raised => outcome = clean
    /\ ~outcome.raised =>
           /\ Len(outcome.checks) = Len(clean.checks)
           /\ \A k \in 1..Len(outcome.checks) :
                  \/ outcome.checks[k] = clean.checks[k]
                  \/ runs /\ LintDeducted(outcome.checks[k], clean.checks[k])

LinterStates_check(run, absent, timeout, clean, runs) ==
    /\ absent = clean
    /\ timeout = clean
    /\ OnlyLintDeducted(run.outcome, clean, runs)

\* C23: for the scripts handed to the linter, a linter that is not installed
\* and a linter that times out give the checks a linter gives that runs and
\* reports success; credit is taken off only when the linter runs and reports
\* failure: the shell check fails, the remediation.sh check loses exactly one
\* point and stays at zero or above.  Stated of the call the loop has just
\* made.
LinterOnlyFailureDeducts ==
    \A i \in {Len(invoked)} \ {0} :
        (/\ pc = "loop"
         /\ invoked[i].validator \in {"shell_validator", "document_validator"}) =>
            LinterStates_check(invoked[i],
                Validate(invoked[i].validator, sub, LinterIs(env, "absent"), quick),
                Validate(invoked[i].validator, sub, LinterIs(env, "timeout"), quick),
                Validate(invoked[i].validator, LintClean(sub), LinterIs(env, "runs"), quick),
                env.shellcheck = "runs")

\* a full run with a linter that times out on scripts it would warn about: the
\* shell check passes; with the linter running the shell check fails
LinterOnlyFailureDeductsWitness ==
    /\ Done /\ ~quick
    /\ env.shellcheck = "timeout"
    /\ \E j \in 1..Len(sub.files) : sub.files[j].path[3] = ".sh" /\ ~sub.files[j].lint
    /\ \E i \in 1..Len(invoked) :
           /\ invoked[i].validator = "shell_validator"
           /\ ~invoked[i].outcome.raised
           /\ \E c \in Named(invoked[i].outcome, "shellcheck passes on .sh files") :
                  c.passed /\ c.points_awarded = 2
    /\ \E c \in Named(Validate("shell_validator", sub, LinterIs(env, "runs"), quick),
                      "shellcheck passes on .sh files") :
           ~c.passed /\ c.points_awarded = 0

(***************************************************************************)
(* C24: the content checks gated by a number of lines.                     *)
(***************************************************************************)
\* the lines of a file that are neither blank nor comments
Substantive(s, path) == Len(CodeLines(_read_file(s, path)))

PointsAre(outcome, name, points) ==
    /\ Cardinality(Named(outcome, name)) = 1
    /\ \A c \in Named(outcome, name) : c.points_awarded = points

\* C24: a gated content check awards zero points when its file has fewer lines
\* that are neither blank nor comments than its threshold, whatever keywords
\* the file holds: the firewall_rules.sh detail check below 8 lines, the
\* setup.sh check below 10, the remediation.sh check below 3, the site_plan.md
\* check below 5 lines left by the template stripping.
GatedChecksZero ==
    \A i \in 1..Len(invoked) :
        (~quick /\ ~invoked[i].outcome.raised) =>
            /\ (invoked[i].validator = "shell_validator" /\ Substantive(sub, FirewallSh) < 8) =>
                   PointsAre(invoked[i].outcome,
                             "Firewall: RTSP, HTTPS, SSH, camera isolation", 0)
            /\ (invoked[i].validator = "shell_validator" /\ Substantive(sub, SetupSh) < 10) =>
                   PointsAre(invoked[i].outcome,
                             "setup.sh: Docker, NTP, log rotation, systemd, error handling", 0)
            /\ (/\ invoked[i].validator = "shell_validator"
                /\ Len(NonBlankLines(shell_strip_md_template(_read_file(sub, SitePlanMd)))) < 5) =>
                   PointsAre(invoked[i].outcome,
                             "site_plan.md: VLAN design, IP scheme, isolation", 0)
            /\ (invoked[i].validator = "document_validator"
                    /\ Substantive(sub, RemediationSh) < 3) =>
                   PointsAre(invoked[i].outcome,
                             "remediation.sh: sets MTU, passes shellcheck", 0)

\* a full run on files that hold the keywords of their checks and are one line
\* short: 7, 9 and 2 lines of code, 4 lines of site plan
GatedChecksZeroWitness ==
    /\ Done /\ ~quick /\ module = NoModule
    /\ Substantive(sub, FirewallSh) = 7
    /\ InText("554", lower_text(_read_file(sub, FirewallSh)))
    /\ InText("eno2", lower_text(_read_file(sub, FirewallSh)))
    /\ InText("443", lower_text(_read_file(sub, FirewallSh)))
    /\ Substantive(sub, SetupSh) = 9
    /\ InText("docker.io", lower_text(_read_file(sub, SetupSh)))
    /\ InText("chrony", lower_text(_read_file(sub, SetupSh)))
    /\ InText("systemctl", lower_text(_read_file(sub, SetupSh)))
    /\ Substantive(sub, RemediationSh) = 2
    /\ InText("mtu", lower_text(_read_file(sub, RemediationSh)))
    /\ InText("ip link", lower_text(_read_file(sub, RemediationSh)))
    /\ Len(NonBlankLines(shell_strip_md_template(_read_file(sub, SitePlanMd)))) = 4
    /\ CountMatches(<<"vlan", "trunk">>, lower_text(_read_file(sub, SitePlanMd))) = 2
    /\ \E c \in Range(result.modules["network"].checks) :
           /\ c.name = "Firewall: RTSP, HTTPS, SSH, camera isolation"
           /\ c.points_awarded = 0
    /\ \E c \in Range(result.modules["network"].checks) :
           /\ c.name = "setup.sh: Docker, NTP, log rotation, systemd, error handling"
           /\ c.points_awarded = 0
    /\ \E c \in Range(result.modules["network"].checks) :
           /\ c.name = "site_plan.md: VLAN design, IP scheme, isolation"
           /\ c.points_awarded = 0
    /\ \E c \in Range(result.modules["debug"].checks) :
           /\ c.name = "remediation.sh: sets MTU, passes shellcheck"
           /\ c.points_awarded = 0

(***************************************************************************)
(* C25: the manifests reported as parse errors.                            *)
(***************************************************************************)
Manifests(s) == listdir(s, K8sDir, {".yaml", ".yml"})

\* the names of the manifests that fail to parse and have a line that is
\* neither blank nor a comment
Unparsed(files) ==
    Flatten([j \in 1..Len(files) |->
                 IF ~files[j].yaml.ok /\ HasCodeLines(files[j].lines)
                 THEN <<Name(files[j].path)>> ELSE <<>>])

\* the submission without the manifests that hold only comments and blank lines
WithoutNotes(s) ==
    LET Keep(f) == ~(f.path[1] = K8sDir /\ f.path[3] \in {".yaml", ".yml"}
                         /\ ~HasCodeLines(f.lines))
    IN  [s EXCEPT !.files = SelectSeq(s.files, Keep)]

ParsingReports(outcome, unparsed) ==
    /\ Cardinality(Named(outcome, "YAML parsing")) = 1
    /\ \A c \in Named(outcome, "YAML parsing") :
           IF unparsed # <<>>
           THEN /\ ~c.passed /\ c.points_awarded = 0
                /\ c.details = "Parse errors in: " \o Join(unparsed, ", ")
           ELSE c.details \in {"", "No YAML content found"}

SameWithoutNotes_check(outcome, without) == without = outcome

\* C25: kubernetes_validator reports a .yaml/.yml file as a parse error, which
\* fails the check "YAML parsing" and names the file in its details, if and
\* only if the file fails to parse and has a line that is neither blank nor a
\* comment; a file of comments and blank lines is never reported and gives no
\* documents: the validator returns what it returns without the file (compared
\* for the call the loop has just made).
ParseErrorIffContent ==
    \A i \in 1..Len(invoked) :
        (/\ invoked[i].validator = "kubernetes_validator"
         /\ ~invoked[i].outcome.raised
         /\ isdir(sub, K8sDir)) =>
            /\ ParsingReports(invoked[i].outcome, Unparsed(Manifests(sub)))
            /\ (pc = "loop" /\ i = Len(invoked)) =>
                   SameWithoutNotes_check(invoked[i].outcome,
                       Validate("kubernetes_validator", WithoutNotes(sub), env, quick))

\* a run on a directory with a manifest that does not parse and a file of
\* comments that does not parse either: the first is named, the second is not
ParseErrorIffContentWitness ==
    /\ \E j \in 1..Len(sub.files) :
           /\ sub.files[j].path = <<K8sDir, "notes", ".yaml">>
           /\ ~sub.files[j].yaml.ok /\ ~HasCodeLines(sub.files[j].lines)
    /\ \E i \in 1..Len(invoked) :
           /\ invoked[i].validator = "kubernetes_validator"
           /\ ~invoked[i].outcome.raised
           /\ \E c \in Named(invoked[i].outcome, "YAML parsing") :
                  ~c.passed /\ c.details = "Parse errors in: broken.yaml"

(***************************************************************************)
(* C26: the .tf files flagged as parse failures.                           *)
(***************************************************************************)
\* the submission with the parser accepting every .tf file that holds only
\* comments
ParsedWhenComments(s) ==
    [s EXCEPT !.files = [j \in 1..Len(s.files) |->
        IF s.files[j].path[3] = ".tf" /\ CommentOnly(s.files[j])
        THEN [s.files[j] EXCEPT !.hcl.ok = TRUE] ELSE s.files[j]]]

SameParsingCheck(outcome, other) == Named(other, "HCL parsing") = Named(outcome, "HCL parsing")

\* C26: terraform_validator flags a .tf file as a parse failure, failing the
\* check "HCL parsing", only if the file fails to parse and holds content that
\* is not a comment; a .tf file of comments only is never among the parse
\* errors, whatever the parser returns for it: the check is the one returned
\* when the parser accepts the file.
CommentsNeverParseErrors ==
    \A i \in 1..Len(invoked) :
        (invoked[i].validator = "terraform_validator" /\ ~invoked[i].outcome.raised) =>
            /\ SameParsingCheck(invoked[i].outcome,
                   Validate("terraform_validator", ParsedWhenComments(sub), env, quick))
            /\ \A c \in Named(invoked[i].outcome, "HCL parsing") :
                   c.details \notin {"", "No .tf files found"} =>
                       \E j \in 1..Len(sub.files) :
                           /\ sub.files[j].path[1] = TfDir /\ sub.files[j].path[3] = ".tf"
                           /\ ~_parse_hcl_file(env, sub.files[j])
                           /\ ~CommentOnly(sub.files[j])

(***************************************************************************)
(* C27: passed and points_awarded.                                         *)
(***************************************************************************)
\* every check there is: those the validators returned and those stored for
\* the modules, the error checks of run_module among them
AllChecks ==
    UNION {Range(invoked[i].outcome.checks) : i \in 1..Len(invoked)}
        \cup UNION {Range(module_results[mod]) : mod \in DOMAIN module_results}

ErrorNames ==
    {"Validator error (evaluation.validators." \o v \o ")" :
        v \in UNION {Range(MODULE_VALIDATORS[mod]) : mod \in DOMAIN MODULE_VALIDATORS}}

\* C27: for every check with max_points > 0, of any validator in any mode,
\* points_awarded = max_points implies passed, and passed implies
\* points_awarded >= 1; the only check with points_awarded = max_points that
\* is not passed is the error check of run_module, whose max_points is 0.
PassedMatchesPoints ==
    \A c \in AllChecks :
        /\ c.max_points > 0 =>
               /\ c.points_awarded = c.max_points => c.passed
               /\ c.passed => c.points_awarded >= 1
        /\ (c.points_awarded = c.max_points /\ ~c.passed) =>
               c.max_points = 0 /\ c.name \in ErrorNames

\* a full run in which a validator raised and another returned a check passed
\* with a part of its points: the error check has 0 of 0 points and is not
\* passed
PassedMatchesPointsWitness ==
    /\ Done /\ ~quick /\ module = NoModule
    /\ \E c \in AllChecks :
           c.name \in ErrorNames /\ c.max_points = 0 /\ c.points_awarded = 0 /\ ~c.passed
    /\ \E c \in AllChecks :
           c.passed /\ c.points_awarded >= 1 /\ c.points_awarded < c.max_points
    /\ \E c \in AllChecks :
           ~c.passed /\ c.points_awarded >= 1 /\ c.points_awarded < c.max_points

(***************************************************************************)
(* C28: the totals of quick runs and of runs of one module.                *)
(***************************************************************************)
\* evaluate was given a module name
SingleModule == module # NoModule /\ module # ""

\* C28: when evaluate runs in quick mode, or on a single module, total_score
\* is at most 25 and the band is "No Hire"; another band is returned only by a
\* full run of all the modules.
PartialRunsNoHire ==
    Done =>
        /\ (quick \/ SingleModule) => result.total_score <= 25 /\ result.band = "No Hire"
        /\ result.band # "No Hire" => ~quick /\ ~SingleModule

\* a quick run of all the modules on a submission that passes every syntax
\* check: 25 points, "No Hire"
PartialRunsNoHireWitness ==
    /\ Done /\ quick /\ module = NoModule
    /\ result.total_score = 25
    /\ result.band = "No Hire"
    /\ reference[FALSE].valid /\ reference[FALSE].result.band = "Strong Hire"

\* some function definition of the tree has the word in its lower-cased name and
\* a statement other than pass or a string literal in its body
WrittenSomewhere(tree, word) ==
    \E j \in 1..Len(tree.funcs) :
        /\ word \in Parts(lower(tree.funcs[j].name))
        /\ \E k \in 1..Len(tree.funcs[j].body) :
               tree.funcs[j].body[k] \notin {"pass", "docstring"}

\* a function written with a body and defined again further down as a stub
StubbedAgain(tree, word) ==
    \E j \in 1..Len(tree.funcs) : \E n \in (j + 1)..Len(tree.funcs) :
        /\ word \in Parts(lower(tree.funcs[j].name))
        /\ tree.funcs[n].name = tree.funcs[j].name
        /\ \E k \in 1..Len(tree.funcs[j].body) :
               tree.funcs[j].body[k] \notin {"pass", "docstring"}
        /\ \A k \in 1..Len(tree.funcs[n].body) :
               tree.funcs[n].body[k] \in {"pass", "docstring"}

\* the details of the deploy.py check for what was found
DeployFound(argparse, subcommands, rollback, health) ==
    "Found: valid syntax"
        \o (IF argparse THEN ", argparse" ELSE "")
        \o (IF argparse /\ subcommands THEN ", subcommands" ELSE "")
        \o (IF rollback THEN ", rollback function" ELSE "")
        \o (IF health THEN ", healthcheck function" ELSE "")

\* the deploy.py check reports and counts the two functions as given
DeployReports(outcome, rollback, health) ==
    \E c \in Named(outcome, "deploy.py: valid Python, argparse, rollback, healthcheck") :
        \E argparse \in BOOLEAN, subcommands \in BOOLEAN :
            /\ c.details = DeployFound(argparse, subcommands, rollback, health)
            /\ c.points_awarded
                   = 1 + Bool2Int(argparse) + Bool2Int(rollback) + Bool2Int(health)

\* C29: in the deploy.py check of a full run, the rollback point and the
\* healthcheck point are given exactly when some function definition of the
\* file, wherever it stands, has the word in its name and a body statement
\* other than pass or a lone string literal; a later definition of the same
\* name as a stub does not take the point away.
ImplementedByAnyDefinition ==
    \A i \in 1..Len(invoked) :
        (/\ invoked[i].validator = "python_validator"
         /\ ~quick /\ ~invoked[i].outcome.raised
         /\ _read_file(sub, DeployPy) # EmptyText
         /\ FileAt(sub, DeployPy).ast.error = "") =>
            DeployReports(invoked[i].outcome,
                          WrittenSomewhere(FileAt(sub, DeployPy).ast, "rollback"),
                          WrittenSomewhere(FileAt(sub, DeployPy).ast, "health"))

\* a full run on a deploy.py that writes rollback_release and health_check and
\* then defines both again as stubs: both functions are reported
ImplementedByAnyDefinitionWitness ==
    /\ Done /\ ~quick /\ Exists(sub, DeployPy)
    /\ StubbedAgain(FileAt(sub, DeployPy).ast, "rollback")
    /\ StubbedAgain(FileAt(sub, DeployPy).ast, "health")
    /\ \E c \in Range(result.modules["cicd"].checks) :
           /\ c.name = "deploy.py: valid Python, argparse, rollback, healthcheck"
           /\ c.details = "Found: valid syntax, argparse, rollback function, healthcheck function"
           /\ c.points_awarded = 4 /\ c.passed

\* some document that is not null was parsed from a .yaml or .yml file of k8s/
NonNullDocumentParsed(s) ==
    \E j \in 1..Len(s.files) :
        /\ s.files[j].path[1] = K8sDir
        /\ s.files[j].path[3] \in {".yaml", ".yml"}
        /\ HasCodeLines(s.files[j].lines)
        /\ s.files[j].yaml.ok
        /\ \E d \in 1..Len(s.files[j].yaml.docs) : s.files[j].yaml.docs[d].type # "null"

\* C30: the "YAML parsing" check of kubernetes_validator passes, with its 3
\* points, only if at least one document that is not null was parsed from some
\* .yaml or .yml file of k8s/; a directory whose files parse to nothing but
\* null documents gets 0 points and passed = false.
YamlParsingNeedsDocument ==
    \A i \in 1..Len(invoked) :
        (invoked[i].validator = "kubernetes_validator" /\ ~invoked[i].outcome.raised) =>
            \A c \in Named(invoked[i].outcome, "YAML parsing") :
                (c.passed \/ c.points_awarded > 0) => NonNullDocumentParsed(sub)

====
